---------------------------- MODULE Spec2Model ----------------------------
(***************************************************************************)
(* Verification model of star-torrent: the Bencode parsers of star-bert,   *)
(* the hash / hex wrappers, the FileTree traversal and codec, the torrent  *)
(* validation of bedit-torrent and the info-hash cache of star-cloudburst. *)
(* Each component has its own specification (SpecDfs, SpecInfoHash, ...);  *)
(* the variables of the other components stay at their idle values.        *)
(***************************************************************************)
EXTENDS Integers, Sequences, FiniteSets, TLC

VARIABLES
    tree,                \* FileTree.node of the tree being traversed
    iters,               \* FileTreeDepthFirstIter.iters (front of the VecDeque first)
    results,             \* history: what each call of next() returned
    depth,               \* native call depth reached by the last next()
    info,                \* Torrent.info
    info_hash_internal,  \* Torrent.info_hash_internal: the OnceLock's slot
    once,                \* the OnceLock's Once state
    pc,                  \* per thread: position inside Torrent::info_hash
    ret,                 \* per thread: what its last info_hash() returned
    calculated,          \* number of executions of InfoHashAny::calculate_infohash
    input,               \* argument of the pure function under check
    output               \* its result

vars == <<tree, iters, results, depth, info, info_hash_internal, once, pc, ret,
          calculated, input, output>>

dfsVars == <<tree, iters, results, depth>>
hashVars == <<info, info_hash_internal, once, pc, ret, calculated>>
pureVars == <<input, output>>

DfsIdle == tree = <<>> /\ iters = <<>> /\ results = <<>> /\ depth = 0
HashIdle ==
    /\ info = <<>> /\ info_hash_internal = <<>> /\ once = "idle"
    /\ pc = <<>> /\ ret = <<>> /\ calculated = 0
PureIdle == input = <<>> /\ output = <<>>

None == [some |-> FALSE]
Some(v) == [some |-> TRUE, value |-> v]

(***************************************************************************)
(* FileTree and its depth-first iterator (star-cloudburst files.rs)        *)
(***************************************************************************)

\* Names of files and directories, in the ascending order of BTreeMap<String, _>.
KeyOrder == <<"a", "b", "c">>
Names == {KeyOrder[i] : i \in DOMAIN KeyOrder}
KeyRank(k) == CHOOSE i \in DOMAIN KeyOrder : KeyOrder[i] = k

\* Number of entries (files and directories) of the trees that are traversed.
MaxEntries == 4
\* Calls of next() made after the iterator returned None.
MaxExtraCalls == 2

\* tests::new_file
FileTreeInfo == [attr |-> None, length |-> 1, pieces_root |-> None]
FileEntry == [either |-> "Left", file_info |-> FileTreeInfo]
DirEntry(node) == [either |-> "Right", node |-> node]

EmptyMap == <<>>
Put(k, e, m) == [x \in (DOMAIN m) \cup {k} |-> IF x = k THEN e ELSE m[x]]

RECURSIVE MapsOver(_, _)
\* Every BTreeMap<String, FileTreeEntry> over the keys `keys` with at most n
\* entries in total, nested ones included.
MapsOver(keys, n) ==
    IF keys = <<>> \/ n = 0 THEN {EmptyMap}
    ELSE LET k == Head(keys)
             without == MapsOver(Tail(keys), n)
             with == UNION { UNION { { Put(k, e, m) : m \in MapsOver(Tail(keys), n - 1 - n1) }
                                     : e \in {FileEntry} \cup
                                             {DirEntry(t) : t \in MapsOver(KeyOrder, n1)} }
                             : n1 \in 0..(n - 1) }
         IN without \cup with

FileTrees == MapsOver(KeyOrder, MaxEntries)

\* btree_map::Iter: the keys still to come, ascending.
SortedKeys(node) == SelectSeq(KeyOrder, LAMBDA k : k \in DOMAIN node)

Frame(directory, node) ==
    [directory |-> directory, node |-> node, rest |-> SortedKeys(node)]

\* FileTree::iter_dfs
iter_dfs(t) == <<Frame(<<"./">>, t)>>

FileTreePathView(directory, name, file_info) ==
    [directory |-> directory, name |-> name, file_info |-> file_info]

\* A slip: the current iterator is not pushed back before the directory's.
PushDirectoryOnly(next_frame, cur_frame, popped) == <<next_frame>> \o popped

\* A slip: the directory's iterator is queued behind its parent's.
PushDirectoryBehind(next_frame, cur_frame, popped) == <<cur_frame, next_frame>> \o popped

\* The two push_front calls of the Either::Right arm.
PushDirectory(next_frame, cur_frame, popped) == <<next_frame, cur_frame>> \o popped

\* A slip: the current iterator is not pushed back after it yielded a file.
PushBackForgotten(cur_frame, popped) == popped

\* The push_front call of the Either::Left arm.
PushBack(cur_frame, popped) == <<cur_frame>> \o popped

RECURSIVE next(_, _)
\* FileTreeDepthFirstIter::next on the stack `its`, entered at native call
\* depth d: the stack it leaves, the item it returns, the depth it reached.
next(its, d) ==
    IF its = <<>> THEN [iters |-> <<>>, item |-> None, depth |-> d]
    ELSE LET fr == Head(its)
             popped == Tail(its)
         IN IF fr.rest = <<>> THEN next(popped, d + 1)
            ELSE LET name == Head(fr.rest)
                     entry == fr.node[name]
                     cur == [fr EXCEPT !.rest = Tail(fr.rest)]
                 IN IF entry.either = "Left"
                    THEN [iters |-> PushBack(cur, popped),
                          item |-> Some(FileTreePathView(fr.directory, name, entry.file_info)),
                          depth |-> d]
                    ELSE next(PushDirectory(Frame(Append(fr.directory, name), entry.node),
                                            cur, popped), d + 1)

Exhausted == results # <<>> /\ ~results[Len(results)].some
ExtraCalls == Cardinality({i \in DOMAIN results : ~results[i].some})

InitDfs ==
    /\ tree \in FileTrees
    /\ iters = iter_dfs(tree)
    /\ results = <<>>
    /\ depth = 0
    /\ HashIdle /\ PureIdle

\* One call of next() by the iterator's owner.
CallNext ==
    /\ ExtraCalls <= MaxExtraCalls
    /\ LET r == next(iters, 1)
       IN /\ iters' = r.iters
          /\ results' = Append(results, r.item)
          /\ depth' = r.depth
    /\ UNCHANGED <<tree, hashVars, pureVars>>

NextDfs == CallNext

SpecDfs == InitDfs /\ [][NextDfs]_vars

\* The views yielded so far, in order.
Yielded == SelectSeq(results, LAMBDA r : r.some)
View(i) == Yielded[i].value

\* Path of a view below the root: its directories without "./", then its name.
FullPath(v) == Append(Tail(v.directory), v.name)

\* p comes before q when the entries of every level are taken in ascending key
\* order and a directory's content comes before the directory's later siblings.
PathBefore(p, q) ==
    \E i \in 1..Len(p) :
        /\ i <= Len(q)
        /\ \A j \in 1..(i - 1) : p[j] = q[j]
        /\ KeyRank(p[i]) < KeyRank(q[i])

RECURSIVE LeavesOf(_, _)
\* The file leaves below `node`, each as the view the documentation of
\* FileTreePathView describes.
LeavesOf(node, directory) ==
    UNION { IF node[k].either = "Left"
            THEN {FileTreePathView(directory, k, node[k].file_info)}
            ELSE LeavesOf(node[k].node, Append(directory, k))
            : k \in DOMAIN node }

\* C1: iter_dfs yields the views in depth-first pre-order with ascending keys
\* at each level: of any two views yielded, the earlier one comes first in
\* that order, so the files below a directory precede the directory's later
\* siblings and no level is yielded out of key order.
C1_DepthFirstAscending ==
    \A i, j \in DOMAIN Yielded :
        i < j => PathBefore(FullPath(View(i)), FullPath(View(j)))

\* A file two directories down was yielded and, after it, a later sibling of
\* its top directory.
C1_Witness ==
    \E i, j \in DOMAIN Yielded :
        /\ i < j
        /\ Len(View(i).directory) >= 3
        /\ Len(View(j).directory) = 1
        /\ KeyRank(View(i).directory[2]) < KeyRank(View(j).name)

\* C2: iteration ends; every view yielded is a file leaf of the tree with the
\* directory "./" followed by its ancestors' names, no leaf is yielded twice,
\* once None was returned every leaf has been yielded and every later call
\* returns None; a tree of one root file yields one view with directory ["./"].
C2_EachLeafOnceThenFused ==
    LET leaves == LeavesOf(tree, <<"./">>)
    IN /\ \A i \in DOMAIN Yielded : View(i) \in leaves
       /\ \A i, j \in DOMAIN Yielded : i # j => View(i) # View(j)
       /\ Exhausted => {View(i) : i \in DOMAIN Yielded} = leaves
       /\ \A i, j \in DOMAIN results : (i < j /\ ~results[i].some) => ~results[j].some
       /\ Len(results) > Cardinality(leaves) => ~results[Cardinality(leaves) + 1].some
       /\ (\E k \in Names : tree = Put(k, FileEntry, EmptyMap) /\ Exhausted)
              => Len(Yielded) = 1 /\ View(1).directory = <<"./">>

\* The iterator of a tree with three leaves, some of them in a directory, was
\* run to its end and called again twice.
C2_Witness ==
    /\ Cardinality(LeavesOf(tree, <<"./">>)) >= 3
    /\ \E i \in DOMAIN Yielded : Len(View(i).directory) >= 2
    /\ ExtraCalls >= 3

(***************************************************************************)
(* Torrent::info_hash and its OnceLock (star-cloudburst torrent.rs)        *)
(***************************************************************************)

\* Threads that share one &Torrent.
NumThreads == 2
Threads == 1..NumThreads
\* Calls of info_hash() each thread makes.
MaxCalls == 2

Ok(v) == [ok |-> TRUE, value |-> v]
Err(e) == [ok |-> FALSE, error |-> e]

\* Byte strings standing for `pieces` / `root hash`: ASCII and not UTF-8.
AsciiDigest == [i \in 1..20 |-> 97]
RawDigest == [i \in 1..20 |-> 255]

\* std::str::from_utf8 on the bytes used here: 0xff never occurs in UTF-8.
IsUtf8(bytes) == \A i \in DOMAIN bytes : bytes[i] < 128

\* The info dictionaries a Torrent may hold, by MetaInfo variant.
MetaInfos ==
    [variant : {"MetaV1"}, name : {"n"}, pieces : {AsciiDigest, RawDigest}]
    \cup [variant : {"MetaV2"}, name : {"n"}, root_hash : {AsciiDigest, RawDigest}]
    \cup [variant : {"Hybrid"}, name : {"n"}, pieces : {None, Some(AsciiDigest), Some(RawDigest)}]

\* The raw byte strings a serialized info dictionary contains.
RawFields(i) ==
    CASE i.variant = "MetaV1" -> {i.pieces}
      [] i.variant = "MetaV2" -> {i.root_hash}
      [] i.variant = "Hybrid" -> IF i.pieces.some THEN {i.pieces.value} ELSE {}

\* serde_bencode::to_string(info): the Bencoded dictionary as a String. It is
\* an error when the bytes are not UTF-8, and for MetaV1 whose `files` is an
\* internally tagged enum of newtype variants that hold no map.
to_string(i) ==
    IF i.variant = "MetaV1" THEN Err("cannot serialize tagged newtype variant")
    ELSE IF \E b \in RawFields(i) : ~IsUtf8(b) THEN Err("invalid utf-8")
    ELSE Ok([bencoded |-> i])

\* CalculateInfoHash::calculate_infohash for the digest `alg`.
calculate_infohash_with(alg, i) ==
    LET info_se == to_string(i)
    IN IF info_se.ok THEN Ok([digest |-> alg, of |-> info_se.value])
       ELSE info_se

\* InfoHashAny::calculate_infohash
calculate_infohash(i) ==
    LET sha1 == calculate_infohash_with("sha1", i)
        sha2 == calculate_infohash_with("sha2", i)
    IN IF ~sha1.ok THEN sha1
       ELSE IF ~sha2.ok THEN sha2
       ELSE Ok([sha1 |-> sha1.value, sha2 |-> sha2.value])

\* The match at the end of Torrent::info_hash.
InfoHashVersioned(i, info_hash) ==
    CASE i.variant = "MetaV1" -> [variant |-> "V1", sha1 |-> info_hash.sha1]
      [] i.variant = "MetaV2" -> [variant |-> "V2", sha2 |-> info_hash.sha2]
      [] i.variant = "Hybrid" ->
            [variant |-> "Hybrid", sha1 |-> info_hash.sha1, sha2 |-> info_hash.sha2]

\* A slip: a thread that finds the initialisation running runs it as well.
call_once_unsynchronised(state) ==
    IF state = "complete" THEN "done" ELSE "run"

\* Once::call_once_force as OnceLock::initialize uses it: the closure runs
\* unless the Once is complete; a thread that finds it running waits.
call_once_force(state) ==
    CASE state = "complete" -> "done"
      [] state = "running" -> "wait"
      [] OTHER -> "run"

InitInfoHash ==
    /\ info \in MetaInfos
    /\ info_hash_internal = None
    /\ once = "incomplete"
    /\ pc = [t \in Threads |-> "idle"]
    /\ ret = [t \in Threads |-> <<>>]
    /\ calculated = 0
    /\ DfsIdle /\ PureIdle

\* A thread calls info_hash().
Call(t) ==
    /\ pc[t] = "idle"
    /\ Len(ret[t]) < MaxCalls
    /\ pc' = [pc EXCEPT ![t] = "get"]
    /\ UNCHANGED <<info, info_hash_internal, once, ret, calculated, dfsVars, pureVars>>

\* get_or_try_init: the fast path, self.get().
Get(t) ==
    /\ pc[t] = "get"
    /\ pc' = [pc EXCEPT ![t] = IF info_hash_internal.some THEN "match" ELSE "initialize"]
    /\ UNCHANGED <<info, info_hash_internal, once, ret, calculated, dfsVars, pureVars>>

\* get_or_try_init: OnceLock::initialize enters the Once.
Initialize(t) ==
    /\ pc[t] = "initialize"
    /\ call_once_force(once) # "wait"
    /\ IF call_once_force(once) = "done"
       THEN /\ pc' = [pc EXCEPT ![t] = "match"]
            /\ once' = once
       ELSE /\ pc' = [pc EXCEPT ![t] = "closure"]
            /\ once' = "running"
    /\ UNCHANGED <<info, info_hash_internal, ret, calculated, dfsVars, pureVars>>

\* A slip: the failure is stored in the cell and the Once is left complete.
ClosureMemoizesFailure(t) ==
    /\ pc[t] = "closure"
    /\ calculated' = calculated + 1
    /\ info_hash_internal' = Some(calculate_infohash(info))
    /\ once' = "complete"
    /\ pc' = [pc EXCEPT ![t] = "idle"]
    /\ ret' = [ret EXCEPT ![t] = Append(@, calculate_infohash(info))]
    /\ UNCHANGED <<info, dfsVars, pureVars>>

\* The closure: calculate the hash; store it, or poison the Once and return
\* the error.
Closure(t) ==
    /\ pc[t] = "closure"
    /\ calculated' = calculated + 1
    /\ LET r == calculate_infohash(info)
       IN IF r.ok
          THEN /\ info_hash_internal' = Some(r.value)
               /\ once' = "complete"
               /\ pc' = [pc EXCEPT ![t] = "match"]
               /\ ret' = ret
          ELSE /\ info_hash_internal' = info_hash_internal
               /\ once' = "poisoned"
               /\ pc' = [pc EXCEPT ![t] = "idle"]
               /\ ret' = [ret EXCEPT ![t] = Append(@, r)]
    /\ UNCHANGED <<info, dfsVars, pureVars>>

\* The match on self.info and the return.
Match(t) ==
    /\ pc[t] = "match"
    /\ ret' = [ret EXCEPT ![t] = Append(@, Ok(InfoHashVersioned(info, info_hash_internal.value)))]
    /\ pc' = [pc EXCEPT ![t] = "idle"]
    /\ UNCHANGED <<info, info_hash_internal, once, calculated, dfsVars, pureVars>>

NextInfoHash ==
    \E t \in Threads : Call(t) \/ Get(t) \/ Initialize(t) \/ Closure(t) \/ Match(t)

SpecInfoHash == InitInfoHash /\ [][NextInfoHash]_vars

\* Every value info_hash() has returned, on any thread.
Returned == UNION { {ret[t][i] : i \in DOMAIN ret[t]} : t \in Threads }

\* C3: when the computation succeeds for this Torrent, calculate_infohash runs
\* at most once however the calls interleave, it has run exactly once as soon
\* as one call has a hash in hand, and all calls return the same Ok value.
C3_ComputedOnceSameValue ==
    calculate_infohash(info).ok =>
        /\ calculated <= 1
        /\ ((Returned # {} \/ \E t \in Threads : pc[t] = "match") => calculated = 1)
        /\ \A r \in Returned : r.ok
        /\ Cardinality(Returned) <= 1

\* Two threads have each returned from info_hash() twice, a hash was computed
\* and one of them got it without computing.
C3_Witness ==
    /\ calculate_infohash(info).ok
    /\ \A t \in Threads : Len(ret[t]) = MaxCalls
    /\ calculated = 1


(***************************************************************************)
(* star-bert: nom combinators, BertErrorTrace, parser::integer             *)
(***************************************************************************)

Digits == <<"0", "1", "2", "3", "4", "5", "6", "7", "8", "9">>
IsDigit(c) == \E i \in DOMAIN Digits : Digits[i] = c
DigitVal(c) == (CHOOSE i \in DOMAIN Digits : Digits[i] = c) - 1

\* Result of a parser that succeeded: the unparsed rest and the output.
Parsed(rest, out) == [ok |-> TRUE, rest |-> rest, out |-> out]

\* ParseError::from_error_kind
from_error_kind(kind) == [ok |-> FALSE, sources |-> <<[source |-> "Nom", kind |-> kind]>>]
\* ParseError::from_char
from_char(ch) == [ok |-> FALSE, sources |-> <<[source |-> "ErrantChar", ch |-> ch]>>]
\* ParseError::append
append(kind, other) ==
    [other EXCEPT !.sources = Append(@, [source |-> "Nom", kind |-> kind])]
\* ContextError::add_context
add_context(ctx, other) ==
    [other EXCEPT !.sources = Append(@, [source |-> "Context", ctx |-> ctx])]
\* FromExternalError::from_external_error
from_external_error(kind, e) ==
    [ok |-> FALSE, sources |-> <<[source |-> "Nom", kind |-> kind], [source |-> e]>>]

\* nom::error::context
context(ctx, r) == IF r.ok THEN r ELSE add_context(ctx, r)

Drop(inp, n) == SubSeq(inp, n + 1, Len(inp))

\* nom::bytes::complete::tag
tag(t, inp) ==
    IF Len(inp) >= Len(t) /\ SubSeq(inp, 1, Len(t)) = t
    THEN Parsed(Drop(inp, Len(t)), t)
    ELSE from_error_kind("Tag")

\* nom::character::complete::char
char(c, inp) ==
    IF inp # <<>> /\ inp[1] = c THEN Parsed(Tail(inp), c) ELSE from_char(c)

\* nom::character::complete::digit1
digit1(inp) ==
    LET n == CHOOSE k \in 0..Len(inp) :
                 /\ \A j \in 1..k : IsDigit(inp[j])
                 /\ (k < Len(inp) => ~IsDigit(inp[k + 1]))
    IN IF n = 0 THEN from_error_kind("Digit")
       ELSE Parsed(Drop(inp, n), SubSeq(inp, 1, n))

\* A slip: take hands out whatever is left when the input is too short.
take_available(n, inp) ==
    IF Len(inp) < n THEN Parsed(<<>>, inp) ELSE Parsed(Drop(inp, n), SubSeq(inp, 1, n))

\* nom::bytes::complete::take
take(n, inp) ==
    IF Len(inp) < n THEN from_error_kind("Eof")
    ELSE Parsed(Drop(inp, n), SubSeq(inp, 1, n))

\* The integer types the parsers are instantiated with.
i8 == [signed |-> TRUE, min |-> -128, max |-> 127]
u8 == [signed |-> FALSE, min |-> 0, max |-> 255]

RECURSIVE from_str_digits(_, _, _, _)
\* The digit loop of <N as FromStr>::from_str: checked multiply, then checked
\* add (or subtract, for a negative number).
from_str_digits(ds, acc, positive, N) ==
    IF ds = <<>> THEN [ok |-> TRUE, value |-> acc]
    ELSE IF ~IsDigit(Head(ds)) THEN [ok |-> FALSE, error |-> "InvalidDigit"]
    ELSE LET mul == acc * 10
             r == IF positive THEN mul + DigitVal(Head(ds)) ELSE mul - DigitVal(Head(ds))
         IN IF mul > N.max \/ mul < N.min \/ r > N.max \/ r < N.min
            THEN [ok |-> FALSE, error |-> IF positive THEN "PosOverflow" ELSE "NegOverflow"]
            ELSE from_str_digits(Tail(ds), r, positive, N)

\* <N as FromStr>::from_str for a primitive integer type.
from_str(src, N) ==
    IF src = <<>> THEN [ok |-> FALSE, error |-> "Empty"]
    ELSE IF Len(src) = 1 /\ src[1] \in {"+", "-"} THEN [ok |-> FALSE, error |-> "InvalidDigit"]
    ELSE IF src[1] = "+" THEN from_str_digits(Tail(src), 0, TRUE, N)
    ELSE IF src[1] = "-" /\ N.signed THEN from_str_digits(Tail(src), 0, FALSE, N)
    ELSE from_str_digits(src, 0, TRUE, N)

\* bytes_to_str_to_int: the bytes here are ASCII, so from_utf8 succeeds.
bytes_to_str_to_int(bytes, N) == from_str(bytes, N)

\* verify(opt(peek(tag("-0"))), Option::is_none)
forbid_negative_zero(inp) ==
    IF tag(<<"-", "0">>, inp).ok THEN from_error_kind("Verify") ELSE Parsed(inp, None)

\* A slip: the leading-zero check accepts everything.
forbid_nothing(inp) == Parsed(inp, None)

\* verify(opt(peek(pair(char('0'), digit1))), Option::is_none)
forbid_leading_zero(inp) ==
    LET zero == char("0", inp)
    IN IF zero.ok /\ digit1(zero.rest).ok THEN from_error_kind("Verify") ELSE Parsed(inp, None)

\* alt((digit1, recognize(pair(char('-'), digit1))))
signed_digits(inp) ==
    LET positive == digit1(inp)
        minus == char("-", inp)
        negative == IF minus.ok THEN digit1(minus.rest) ELSE minus
    IN IF positive.ok THEN positive
       ELSE IF negative.ok THEN Parsed(negative.rest, <<"-">> \o negative.out)
       ELSE append("Alt", negative)

\* parser::integer::<N>
integer(inp, N) ==
    LET open == tag(<<"i">>, inp)
        check_zero == context("[Check] {integer} BEP-0003 forbids i-0e or -0",
                              forbid_negative_zero(open.rest))
        check_leading == context("[Check] {integer} BEP-0003 forbids leading zeroes",
                                 forbid_leading_zero(open.rest))
        maybe_num == signed_digits(open.rest)
        close == tag(<<"e">>, maybe_num.rest)
        num == bytes_to_str_to_int(maybe_num.out, N)
        delimited ==
            IF ~open.ok THEN open
            ELSE IF ~check_zero.ok THEN check_zero
            ELSE IF ~check_leading.ok THEN check_leading
            ELSE IF ~maybe_num.ok THEN maybe_num
            ELSE IF ~close.ok THEN close
            ELSE IF ~num.ok THEN from_external_error("MapRes", num.error)
            ELSE Parsed(close.rest, num.value)
    IN context("[Parse] {integer} Arbitrary precision integer", delimited)

\* Bytes the integer parser is run on, and the longest input.
IntegerAlphabet == {"i", "e", "-", "0", "1", "2", "8"}
MaxIntegerLen == 5
Strings(alphabet, n) == UNION { [1..k -> alphabet] : k \in 0..n }

Pending == [pending |-> TRUE]

InitInteger ==
    /\ input \in [bytes : Strings(IntegerAlphabet, MaxIntegerLen), N : {i8, u8}]
    /\ output = Pending
    /\ DfsIdle /\ HashIdle

\* integer::<N>(input)
ParseInteger ==
    /\ output = Pending
    /\ output' = integer(input.bytes, input.N)
    /\ UNCHANGED <<input, dfsVars, hashVars>>

NextInteger == ParseInteger

SpecInteger == InitInteger /\ [][NextInteger]_vars

RECURSIVE Decimal(_)
\* The number a run of decimal digits denotes.
Decimal(ds) ==
    IF ds = <<>> THEN 0 ELSE Decimal(SubSeq(ds, 1, Len(ds) - 1)) * 10 + DigitVal(ds[Len(ds)])

\* The single digit 0, or an optional '-' and digits that do not start with 0.
CanonicalDecimal(b) ==
    \/ b = <<"0">>
    \/ LET ds == IF b # <<>> /\ b[1] = "-" THEN Tail(b) ELSE b
       IN ds # <<>> /\ (\A j \in DOMAIN ds : IsDigit(ds[j])) /\ ds[1] # "0"

Denoted(b) == IF b[1] = "-" THEN 0 - Decimal(Tail(b)) ELSE Decimal(b)

\* Positions of an 'e' that closes a canonical i<decimal>e at the input's start.
IntegerEnds(inp) ==
    {k \in 3..Len(inp) : inp[1] = "i" /\ inp[k] = "e" /\ CanonicalDecimal(SubSeq(inp, 2, k - 1))}

usize == [signed |-> FALSE, min |-> 0, max |-> 65535]

\* parser::bytes
bytes(inp) ==
    LET length == context("[Expected] {bytes} Bytes length as positive integer", digit1(inp))
        colon == context("[Expected] {bytes} Delimiter :", char(":", length.rest))
        n == bytes_to_str_to_int(length.out, usize)
        flat_map ==
            IF ~length.ok THEN length
            ELSE IF ~colon.ok THEN colon
            ELSE IF ~n.ok THEN from_external_error("MapRes", n.error)
            ELSE take(n.value, colon.rest)
    IN context("[Parse] {bytes} Bytes array/string", flat_map)

\* Bytes the byte-string parser is run on, and the longest input.
BytesAlphabet == {"0", "1", "9", ":", "a"}
MaxBytesLen == 6

InitBytes ==
    /\ input \in [bytes : Strings(BytesAlphabet, MaxBytesLen)]
    /\ output = Pending
    /\ DfsIdle /\ HashIdle

\* bytes(input)
ParseBytes ==
    /\ output = Pending
    /\ output' = bytes(input.bytes)
    /\ UNCHANGED <<input, dfsVars, hashVars>>

NextBytes == ParseBytes

SpecBytes == InitBytes /\ [][NextBytes]_vars

\* Length of the run of digits the input starts with.
PrefixLen(inp) ==
    CHOOSE k \in 0..Len(inp) :
        /\ \A j \in 1..k : IsDigit(inp[j])
        /\ (k < Len(inp) => ~IsDigit(inp[k + 1]))

\* The input is <digits>:<data>.
HasLengthAndColon(inp) ==
    PrefixLen(inp) > 0 /\ PrefixLen(inp) < Len(inp) /\ inp[PrefixLen(inp) + 1] = ":"

\* C5: on <L>:<data> with at least L bytes of data, bytes returns the first L
\* bytes after the colon and everything after them (an empty slice for L = 0);
\* with fewer than L bytes of data, or without the colon, it returns an error;
\* and whatever it returns as a slice is such a slice.
C5_BytesSliceOrError ==
    output # Pending /\ DOMAIN input = {"bytes"} =>
        LET inp == input.bytes
            p == PrefixLen(inp)
            L == Decimal(SubSeq(inp, 1, p))
            data == Drop(inp, p + 1)
            sliced == output.ok /\ output.out = SubSeq(data, 1, L) /\ output.rest = Drop(data, L)
        IN /\ (HasLengthAndColon(inp) /\ CanonicalDecimal(SubSeq(inp, 1, p)) /\ Len(data) >= L)
                => sliced
           /\ (~HasLengthAndColon(inp) \/ Len(data) < L) => ~output.ok
           /\ output.ok => sliced

\* 1:a9 gave the slice a and the rest 9; 0: gave the empty slice; 9:a failed.
C5_Witness ==
    /\ output # Pending /\ DOMAIN input = {"bytes"}
    /\ \/ input.bytes = <<"1", ":", "a", "9">> /\ output.ok /\ output.out = <<"a">>
                                               /\ output.rest = <<"9">>


(***************************************************************************)
(* star-cloudburst: hexadecimal::HexBytes                                  *)
(***************************************************************************)

\* const HEX_LOWER: &str = "0123456789abcdef", as its bytes
HEX_LOWER == <<48, 49, 50, 51, 52, 53, 54, 55, 56, 57, 97, 98, 99, 100, 101, 102>>

\* serde::de::Error::invalid_length / invalid_value
invalid_length(len, expected) == Err([kind |-> "invalid_length", len |-> len, expected |-> expected])
invalid_value(unexpected, expected) ==
    Err([kind |-> "invalid_value", unexpected |-> unexpected, expected |-> expected])

\* u8::to_ascii_lowercase
to_ascii_lowercase(b) == IF b \in 65..90 THEN b + 32 ELSE b

\* hex_to_byte: the position of the character in HEX_LOWER
hex_to_byte(ch) ==
    IF \E i \in DOMAIN HEX_LOWER : HEX_LOWER[i] = ch
    THEN Ok((CHOOSE i \in DOMAIN HEX_LOWER : HEX_LOWER[i] = ch) - 1)
    ELSE invalid_value(ch, "valid hexadecimal characters [0-9, a-f, A-F]")

\* a | b on u8
RECURSIVE BitOr(_, _, _)
BitOr(a, b, bits) ==
    IF bits = 0 THEN 0
    ELSE (IF a % 2 = 1 \/ b % 2 = 1 THEN 1 ELSE 0) + 2 * BitOr(a \div 2, b \div 2, bits - 1)

\* A slip: the two nibbles are packed the wrong way round.
pack_bytes_swapped(nibbles) == BitOr((nibbles[2] * 16) % 256, nibbles[1], 8)

\* nibbles::pack_bytes
pack_bytes(nibbles) == BitOr((nibbles[1] * 16) % 256, nibbles[2], 8)

\* str::as_bytes: a string is a sequence of characters, each its UTF-8 bytes
RECURSIVE as_bytes(_)
as_bytes(str) == IF str = <<>> THEN <<>> ELSE Head(str) \o as_bytes(Tail(str))

\* The closure of from_hex_str applied to the chunk that starts at byte 2k-1.
hex_chunk(raw, k) ==
    LET upper == hex_to_byte(to_ascii_lowercase(raw[2 * k - 1]))
        lower == hex_to_byte(to_ascii_lowercase(raw[2 * k]))
    IN IF upper.ok /\ lower.ok THEN Ok(pack_bytes(<<upper.value, lower.value>>))
       ELSE IF ~upper.ok THEN upper ELSE lower

\* HexBytes::from_hex_str
from_hex_str(maybe_hex) ==
    LET raw == as_bytes(maybe_hex)
        maybe_hex_len == Len(raw)
        chunks == 1..(maybe_hex_len \div 2)
    IN IF maybe_hex_len % 2 # 0 \/ maybe_hex_len = 0
       THEN invalid_length(maybe_hex_len,
              "valid hex string lengths are divisible by two and greater than zero")
       ELSE IF \E k \in chunks : ~hex_chunk(raw, k).ok
       THEN hex_chunk(raw, CHOOSE k \in chunks :
                /\ ~hex_chunk(raw, k).ok
                /\ \A j \in chunks : j < k => hex_chunk(raw, j).ok)
       ELSE Ok([bytes |-> [k \in chunks |-> hex_chunk(raw, k).value]])

\* impl Display for HexBytes: {:02x} of every byte
Display(hexbytes) ==
    [i \in 1..(2 * Len(hexbytes.bytes)) |->
        LET byte == hexbytes.bytes[(i + 1) \div 2]
        IN IF i % 2 = 1 THEN HEX_LOWER[(byte \div 16) + 1] ELSE HEX_LOWER[(byte % 16) + 1]]

\* Characters the strings are made of: 0 9 a A f F g G and the two-byte e-acute.
HexAlphabet == {<<48>>, <<57>>, <<97>>, <<65>>, <<102>>, <<70>>, <<103>>, <<71>>, <<195, 169>>}
MaxHexLen == 4

InitHex ==
    /\ input \in [hex : Strings(HexAlphabet, MaxHexLen)]
    /\ output = Pending
    /\ DfsIdle /\ HashIdle

\* HexBytes::from_hex_str(input)
FromHexStr ==
    /\ output = Pending
    /\ output' = [parsed |-> from_hex_str(input.hex)]
    /\ UNCHANGED <<input, dfsVars, hashVars>>

\* parsed.to_string()
DisplayParsed ==
    /\ DOMAIN output = {"parsed"} /\ output.parsed.ok
    /\ output' = [parsed |-> output.parsed, shown |-> Display(output.parsed.value)]
    /\ UNCHANGED <<input, dfsVars, hashVars>>

\* HexBytes::from_hex_str(shown)
FromShown ==
    /\ DOMAIN output = {"parsed", "shown"}
    /\ output' = [parsed |-> output.parsed, shown |-> output.shown,
                  reparsed |-> from_hex_str([i \in DOMAIN output.shown |-> <<output.shown[i]>>])]
    /\ UNCHANGED <<input, dfsVars, hashVars>>

NextHex == FromHexStr \/ DisplayParsed \/ FromShown

SpecHex == InitHex /\ [][NextHex]_vars

\* The bytes of the hexadecimal digits, their values and their lower case.
IsHexByte(b) == b \in (48..57) \cup (65..70) \cup (97..102)
HexValue(b) == IF b \in 48..57 THEN b - 48 ELSE IF b \in 65..70 THEN b - 55 ELSE b - 87
LowerCased(b) == IF b \in 65..70 THEN b + 32 ELSE b

\* A non-empty string of an even number of hexadecimal characters.
IsHexString(str) ==
    /\ Len(str) > 0 /\ Len(str) % 2 = 0
    /\ \A i \in DOMAIN str : Len(str[i]) = 1 /\ IsHexByte(str[i][1])

\* C7: on a non-empty even-length string of hexadecimal characters from_hex_str
\* returns the bytes the digits denote whatever their case, displaying them
\* gives the input lower-cased, and from_hex_str of that display returns the
\* same bytes; an odd-length string, the empty string and a string holding a
\* character that is not hexadecimal are rejected.
C7_HexRoundTrip ==
    "parsed" \in DOMAIN output =>
        LET str == input.hex IN
        /\ IsHexString(str) =>
            /\ output.parsed.ok
            /\ output.parsed.value.bytes =
                 [k \in 1..(Len(str) \div 2) |->
                     16 * HexValue(str[2 * k - 1][1]) + HexValue(str[2 * k][1])]
            /\ "shown" \in DOMAIN output =>
                 output.shown = [i \in DOMAIN str |-> LowerCased(str[i][1])]
            /\ "reparsed" \in DOMAIN output => output.reparsed = output.parsed
        /\ ~IsHexString(str) => ~output.parsed.ok

\* aF09 was parsed to the bytes af 09, shown as af09 and parsed again.
C7_Witness ==
    /\ "reparsed" \in DOMAIN output
    /\ input.hex = << <<97>>, <<70>>, <<48>>, <<57>> >>
    /\ output.parsed.value.bytes = <<175, 9>>
    /\ output.shown = <<97, 102, 48, 57>>
    /\ output.reparsed.ok

(***************************************************************************)
(* Hash wrappers: Sha1, Sha2, Sha256, Md5                                  *)
(***************************************************************************)

SHA1_LEN == 20
SHA256_LEN == 32
MD5_LEN == 16

\* The wrappers and the length each compares with.
DigestLen == [Sha1 |-> SHA1_LEN, Sha2 |-> SHA256_LEN, Sha256 |-> SHA256_LEN, Md5 |-> MD5_LEN]

\* #[derive(Deserialize)] #[serde(transparent)] HexBytes { bytes: ByteBuf }:
\* the byte string on the wire is stored as it is, hexadecimal text included.
deserialize_HexBytes(wire) == Ok([bytes |-> wire])

\* impl Deserialize for Sha1 / Sha2 / Sha256 / Md5
deserialize_digest(digest, wire) ==
    LET decoded == deserialize_HexBytes(wire)
        len == Len(decoded.value.bytes)
    IN IF ~decoded.ok THEN decoded
       ELSE IF len # DigestLen[digest] THEN invalid_length(len, DigestLen[digest])
       ELSE Ok([digest |-> digest, hex |-> decoded.value])

\* Byte strings on the wire: a unit of bytes repeated up to a length.  The
\* units are hexadecimal text in both cases (aF, 09) and other bytes.
DigestUnits == {<<97, 70>>, <<48, 57>>, <<103, 0>>, <<255>>}
MaxDigestInput == 65
Repeat(unit, n) == [i \in 1..n |-> unit[((i - 1) % Len(unit)) + 1]]

InitDigest ==
    /\ input \in [digest : DOMAIN DigestLen,
                  wire : {Repeat(unit, n) : unit \in DigestUnits, n \in 0..MaxDigestInput}]
    /\ output = Pending
    /\ DfsIdle /\ HashIdle

\* <digest>::deserialize(wire)
DeserializeDigest ==
    /\ output = Pending
    /\ output' = deserialize_digest(input.digest, input.wire)
    /\ UNCHANGED <<input, dfsVars, hashVars>>

NextDigest == DeserializeDigest

SpecDigest == InitDigest /\ [][NextDigest]_vars

\* The input is of the expected size for N: N raw bytes, or 2N hexadecimal characters.
OfExpectedSize(wire, N) ==
    \/ Len(wire) = N
    \/ Len(wire) = 2 * N /\ \A i \in DOMAIN wire : IsHexByte(wire[i])

\* C6: decoding a digest fails if and only if the input is not of the expected
\* size (N raw bytes or a hexadecimal string of 2N characters), and a digest
\* that was decoded holds exactly N bytes.
C6_FailsIffNotExpectedSize ==
    output # Pending /\ "digest" \in DOMAIN input =>
        /\ ~output.ok <=> ~OfExpectedSize(input.wire, DigestLen[input.digest])
        /\ output.ok => Len(output.value.hex.bytes) = DigestLen[input.digest]

\* An md5sum written as 32 hexadecimal characters was refused for its length.
C6_Witness ==
    /\ output # Pending /\ "digest" \in DOMAIN input
    /\ input.digest = "Md5" /\ input.wire = Repeat(<<97, 70>>, 2 * MD5_LEN)
    /\ ~output.ok /\ output.error.kind = "invalid_length" /\ output.error.len = 32


(***************************************************************************)
(* bedit-torrent: Torrent::validate                                        *)
(***************************************************************************)

\* ParseTorrentError
AmbiguousFiles(detail) == [kind |-> "AmbiguousFiles", detail |-> detail]
InvalidVersion(version) == [kind |-> "InvalidVersion", version |-> version]
PieceLength(piece_length) == [kind |-> "PieceLength", piece_length |-> piece_length]

\* u64::is_power_of_two
is_power_of_two(n) == \E k \in 0..30 : n = 2 ^ k

\* A slip: the arm for all three fields is missing from the match.
match_files_without_all_three(length, files, file_tree) ==
    CASE length /\ files /\ ~file_tree -> Err(AmbiguousFiles("length and files"))
      [] length /\ ~files /\ file_tree -> Err(AmbiguousFiles("length and file_tree"))
      [] ~length /\ files /\ file_tree -> Err(AmbiguousFiles("files and file tree"))
      [] ~length /\ ~files /\ ~file_tree -> Err(AmbiguousFiles("no files"))
      [] OTHER -> Ok(<<>>)

\* Torrent::validate: the match on (length, files, file_tree).is_some()
match_files(length, files, file_tree) ==
    CASE length /\ files /\ ~file_tree -> Err(AmbiguousFiles("length and files"))
      [] length /\ ~files /\ file_tree -> Err(AmbiguousFiles("length and file_tree"))
      [] ~length /\ files /\ file_tree -> Err(AmbiguousFiles("files and file tree"))
      [] ~length /\ ~files /\ ~file_tree -> Err(AmbiguousFiles("no files"))
      [] length /\ files /\ file_tree -> Err(AmbiguousFiles("length, files, and file_tree"))
      [] OTHER -> Ok(<<>>)

\* Torrent::validate; warned records the warn! about a piece length that is
\* not a power of two.
validate(torrent) ==
    IF torrent.meta_version.some
    THEN LET version == torrent.meta_version.value
             piece_length == torrent.info.piece_length
         IN IF version < 2
            THEN [result |-> Err(InvalidVersion(version)), warned |-> FALSE]
            ELSE IF piece_length < 16
            THEN [result |-> Err(PieceLength(piece_length)),
                  warned |-> ~is_power_of_two(piece_length)]
            ELSE [result |-> Ok(<<>>), warned |-> ~is_power_of_two(piece_length)]
    ELSE [result |-> match_files(torrent.info.length.some, torrent.info.files.some,
                                 torrent.info.file_tree.some),
          warned |-> FALSE]

\* Torrents validate is run on: the meta versions up to a bound, piece lengths
\* around 16, and each of the three file fields absent, empty or filled.
MaxMetaVersion == 3
PieceLengths == {1, 8, 15, 16, 17, 32}
Torrents ==
    [meta_version : {None} \cup {Some(v) : v \in 0..MaxMetaVersion},
     info : [length : {None, Some(1)},
             files : {None, Some(<<>>), Some(<<[length |-> 1, path |-> <<"a">>]>>)},
             file_tree : {None, Some(EmptyMap), Some(Put("a", FileEntry, EmptyMap))},
             piece_length : PieceLengths]]

InitValidate ==
    /\ input \in [torrent : Torrents]
    /\ output = Pending
    /\ DfsIdle /\ HashIdle

\* Torrent::validate(&torrent)
Validate ==
    /\ output = Pending
    /\ output' = validate(input.torrent)
    /\ UNCHANGED <<input, dfsVars, hashVars>>

NextValidate == Validate

SpecValidate == InitValidate /\ [][NextValidate]_vars

\* How many of info.length, info.files and info.file_tree are present.
FileFieldsPresent(i) ==
    Cardinality({f \in {"length", "files", "file_tree"} : i[f].some})

\* C8: with the meta version absent, validate returns Ok if and only if
\* exactly one of info.length, info.files and info.file_tree is present, and
\* an AmbiguousFiles error for every other combination.
C8_ExactlyOneFileField ==
    output # Pending /\ "torrent" \in DOMAIN input /\ ~input.torrent.meta_version.some =>
        /\ output.result.ok <=> FileFieldsPresent(input.torrent.info) = 1
        /\ ~output.result.ok => output.result.error.kind = "AmbiguousFiles"

\* A torrent without meta version that has both length and file tree was refused.
C8_Witness ==
    /\ output # Pending /\ "torrent" \in DOMAIN input
    /\ ~input.torrent.meta_version.some
    /\ input.torrent.info.length.some /\ input.torrent.info.file_tree.some
    /\ ~input.torrent.info.files.some
    /\ output.result = Err(AmbiguousFiles("length and file_tree"))


(***************************************************************************)
(* Bencode on the wire, as serde_bencode reads and writes it               *)
(***************************************************************************)

\* The bytes that occur in the documents below, in ascending order.
ByteOrder == <<" ", "+", "-", ".", "/", "0", "1", "2", "3", "4", "5", "6", "7", "8", "9", ":",
               "H", "L", "P", "X", "_",
               "a", "b", "c", "d", "e", "f", "g", "h", "i", "k", "l", "m", "n", "o", "p", "q",
               "r", "s", "t", "u", "v", "w", "x", "y", "z">>
ByteRank(c) == CHOOSE i \in DOMAIN ByteOrder : ByteOrder[i] = c

\* Ord for [u8] / str: lexicographic, a proper prefix first.
RECURSIVE BytesLess(_, _)
BytesLess(a, b) ==
    IF b = <<>> THEN FALSE
    ELSE IF a = <<>> THEN TRUE
    ELSE IF Head(a) # Head(b) THEN ByteRank(Head(a)) < ByteRank(Head(b))
    ELSE BytesLess(Tail(a), Tail(b))

\* A document: integers keep their text, dictionaries the order of their pairs.
WInt(text) == [type |-> "int", text |-> text]
WBytes(b) == [type |-> "bytes", bytes |-> b]
WList(items) == [type |-> "list", items |-> items]
WDict(pairs) == [type |-> "dict", pairs |-> pairs]
Pair(key, value) == [key |-> key, value |-> value]

\* u64 / usize to decimal text
RECURSIVE to_decimal(_)
to_decimal(n) == IF n < 10 THEN <<Digits[n + 1]>> ELSE to_decimal(n \div 10) \o <<Digits[(n % 10) + 1]>>

\* The bytes of a document.
RECURSIVE bencode(_)
bencode(w) ==
    LET RECURSIVE Concat(_)
        Concat(ws) == IF ws = <<>> THEN <<>> ELSE bencode(Head(ws)) \o Concat(Tail(ws))
        RECURSIVE ConcatPairs(_)
        ConcatPairs(ps) ==
            IF ps = <<>> THEN <<>>
            ELSE bencode(WBytes(Head(ps).key)) \o bencode(Head(ps).value) \o ConcatPairs(Tail(ps))
    IN CASE w.type = "int" -> <<"i">> \o w.text \o <<"e">>
         [] w.type = "bytes" -> to_decimal(Len(w.bytes)) \o <<":">> \o w.bytes
         [] w.type = "list" -> <<"l">> \o Concat(w.items) \o <<"e">>
         [] w.type = "dict" -> <<"d">> \o ConcatPairs(w.pairs) \o <<"e">>

\* serde_bencode's serializer sorts the pairs of a dictionary by key.
RECURSIVE SortPairs(_)
SortPairs(pairs) ==
    IF pairs = <<>> THEN <<>>
    ELSE LET i == CHOOSE i \in DOMAIN pairs :
                    \A j \in DOMAIN pairs : ~BytesLess(pairs[j].key, pairs[i].key) /\
                                            (pairs[j].key = pairs[i].key => i <= j)
         IN <<pairs[i]>> \o SortPairs(SubSeq(pairs, 1, i - 1) \o SubSeq(pairs, i + 1, Len(pairs)))

\* i64, cut to the integers of the model checker; the documents stay far inside.
i64 == [signed |-> TRUE, min |-> -2147483647, max |-> 2147483647]

\* serde_bencode's parse_int: the text up to e, parsed as i64.
parse_int(text) == from_str(text, i64)

\* The keys of the dictionaries.
KeyAttr == <<"a", "t", "t", "r">>
KeyLength == <<"l", "e", "n", "g", "t", "h">>
KeyPiecesRoot == <<"p", "i", "e", "c", "e", "s", " ", "r", "o", "o", "t">>
KeyUnknown == <<"z", "z">>

(***************************************************************************)
(* TorrentFileAttributes, FileTreeInfo, FileTreeEntry and FileTree: serde  *)
(***************************************************************************)

AsciiUpper == <<"A", "B", "C", "D", "E", "F", "G", "H", "I", "J", "K", "L", "M",
                "N", "O", "P", "Q", "R", "S", "T", "U", "V", "W", "X", "Y", "Z">>
AsciiLower == <<"a", "b", "c", "d", "e", "f", "g", "h", "i", "j", "k", "l", "m",
                "n", "o", "p", "q", "r", "s", "t", "u", "v", "w", "x", "y", "z">>

\* char::to_ascii_lowercase
char_to_ascii_lowercase(ch) ==
    IF \E i \in DOMAIN AsciiUpper : AsciiUpper[i] = ch
    THEN AsciiLower[CHOOSE i \in DOMAIN AsciiUpper : AsciiUpper[i] = ch]
    ELSE ch

\* const FILE_ATTRIBUTE_EXPECTED
FILE_ATTRIBUTE_EXPECTED == <<"x", "h", "p", "l">>

\* impl TryFrom<char> for FileAttribute
FileAttribute_try_from(value) ==
    IF \E i \in DOMAIN FILE_ATTRIBUTE_EXPECTED :
           FILE_ATTRIBUTE_EXPECTED[i] = char_to_ascii_lowercase(value)
    THEN Ok(char_to_ascii_lowercase(value))
    ELSE Err([kind |-> "unknown_variant", variant |-> value])

\* Itertools::sorted on chars
RECURSIVE sorted(_)
sorted(chars) ==
    IF chars = <<>> THEN <<>>
    ELSE LET i == CHOOSE i \in DOMAIN chars :
                    \A j \in DOMAIN chars : ByteRank(chars[i]) <= ByteRank(chars[j])
         IN <<chars[i]>> \o sorted(SubSeq(chars, 1, i - 1) \o SubSeq(chars, i + 1, Len(chars)))

\* Itertools::dedup
RECURSIVE dedup(_)
dedup(chars) ==
    IF Len(chars) < 2 THEN chars
    ELSE IF chars[1] = chars[2] THEN dedup(Tail(chars))
    ELSE <<chars[1]>> \o dedup(Tail(chars))

\* impl TryFrom<&str> for TorrentFileAttributes: the lower-cased, sorted
\* characters without duplicates.
attributes_normalised(value) ==
    dedup(sorted([i \in DOMAIN value |-> char_to_ascii_lowercase(value[i])]))

\* impl TryFrom<&str> for TorrentFileAttributes
TorrentFileAttributes_try_from(value) ==
    LET chars == attributes_normalised(value)
        invalid == {i \in DOMAIN chars : ~FileAttribute_try_from(chars[i]).ok}
    IN IF invalid = {} THEN Ok(chars)
       ELSE FileAttribute_try_from(chars[CHOOSE i \in invalid : \A j \in invalid : i <= j])

\* impl Deserialize for TorrentFileAttributes
de_TorrentFileAttributes(w) ==
    IF w.type # "bytes" THEN Err([kind |-> "invalid_type", got |-> w.type])
    ELSE IF TorrentFileAttributes_try_from(w.bytes).ok
    THEN TorrentFileAttributes_try_from(w.bytes)
    ELSE Err([kind |-> "unknown_variant", variant |-> w.bytes])

\* NonZeroU64::deserialize
de_NonZeroU64(w) ==
    IF w.type # "int" THEN Err([kind |-> "invalid_type", got |-> w.type])
    ELSE IF ~parse_int(w.text).ok THEN Err([kind |-> "invalid_integer", text |-> w.text])
    ELSE IF parse_int(w.text).value <= 0
    THEN Err([kind |-> "invalid_value", got |-> parse_int(w.text).value])
    ELSE Ok(parse_int(w.text).value)

\* Sha256::deserialize of a byte string
de_Sha256(w) ==
    IF w.type # "bytes" THEN Err([kind |-> "invalid_type", got |-> w.type])
    ELSE deserialize_digest("Sha256", w.bytes)

\* #[derive(Deserialize)] for FileTreeInfo: the visitor's loop over the pairs of
\* the dictionary.  deny is deny_unknown_fields, set in builds with
\* debug_assertions only.
RECURSIVE FileTreeInfo_visit_map(_, _, _)
FileTreeInfo_visit_map(pairs, fields, deny) ==
    IF pairs = <<>>
    THEN IF fields.length.some
         THEN Ok([attr |-> fields.attr, length |-> fields.length.value,
                  pieces_root |-> fields.pieces_root])
         ELSE Err([kind |-> "missing_field", field |-> "length"])
    ELSE LET key == Head(pairs).key
             value == Head(pairs).value
         IN IF key = KeyAttr
            THEN IF fields.seen_attr THEN Err([kind |-> "duplicate_field", field |-> "attr"])
                 ELSE IF ~de_TorrentFileAttributes(value).ok THEN de_TorrentFileAttributes(value)
                 ELSE FileTreeInfo_visit_map(Tail(pairs),
                        [fields EXCEPT !.seen_attr = TRUE,
                                       !.attr = Some(de_TorrentFileAttributes(value).value)], deny)
            ELSE IF key = KeyLength
            THEN IF fields.length.some THEN Err([kind |-> "duplicate_field", field |-> "length"])
                 ELSE IF ~de_NonZeroU64(value).ok THEN de_NonZeroU64(value)
                 ELSE FileTreeInfo_visit_map(Tail(pairs),
                        [fields EXCEPT !.length = Some(de_NonZeroU64(value).value)], deny)
            ELSE IF key = KeyPiecesRoot
            THEN IF fields.seen_pieces_root
                 THEN Err([kind |-> "duplicate_field", field |-> "pieces root"])
                 ELSE IF ~de_Sha256(value).ok THEN de_Sha256(value)
                 ELSE FileTreeInfo_visit_map(Tail(pairs),
                        [fields EXCEPT !.seen_pieces_root = TRUE,
                                       !.pieces_root = Some(de_Sha256(value).value)], deny)
            ELSE IF deny THEN Err([kind |-> "unknown_field", field |-> key])
            ELSE FileTreeInfo_visit_map(Tail(pairs), fields, deny)

\* FileTreeInfo::deserialize.  The documents decoded here hold integers, byte
\* strings and dictionaries.
de_FileTreeInfo(w, debug_assertions) ==
    IF w.type # "dict" THEN Err([kind |-> "invalid_type", got |-> w.type])
    ELSE FileTreeInfo_visit_map(w.pairs,
            [attr |-> None, seen_attr |-> FALSE, length |-> None,
             pieces_root |-> None, seen_pieces_root |-> FALSE],
            debug_assertions)

RECURSIVE de_FileTree(_, _)
RECURSIVE de_FileTreeEntry(_, _)
RECURSIVE FileTree_visit_map(_, _, _)

\* BTreeMap<String, FileTreeEntry>::deserialize: the loop over the pairs; a
\* repeated key replaces the entry inserted before.
FileTree_visit_map(pairs, node, debug_assertions) ==
    IF pairs = <<>> THEN Ok(node)
    ELSE LET entry == de_FileTreeEntry(Head(pairs).value, debug_assertions)
         IN IF ~entry.ok THEN entry
            ELSE FileTree_visit_map(Tail(pairs), Put(Head(pairs).key, entry.value, node),
                                    debug_assertions)

\* FileTree::deserialize (written by hand with debug_assertions, derived
\* without: both decode the transparent BTreeMap)
de_FileTree(w, debug_assertions) ==
    IF w.type # "dict" THEN Err([kind |-> "invalid_type", got |-> w.type])
    ELSE FileTree_visit_map(w.pairs, EmptyMap, debug_assertions)

\* FileTreeEntry::deserialize through either::serde_untagged: Left, then Right
de_FileTreeEntry(w, debug_assertions) ==
    IF de_FileTreeInfo(w, debug_assertions).ok
    THEN Ok([either |-> "Left", file_info |-> de_FileTreeInfo(w, debug_assertions).value])
    ELSE IF de_FileTree(w, debug_assertions).ok
    THEN Ok(DirEntry(de_FileTree(w, debug_assertions).value))
    ELSE Err([kind |-> "custom",
              msg |-> "data did not match any variant of untagged enum Either"])

\* #[skip_serializing_none] #[derive(Serialize)] for FileTreeInfo
ser_FileTreeInfo(file_info) ==
    WDict(SortPairs(
        (IF file_info.attr.some THEN <<Pair(KeyAttr, WBytes(file_info.attr.value))>> ELSE <<>>)
        \o <<Pair(KeyLength, WInt(to_decimal(file_info.length)))>>
        \o (IF file_info.pieces_root.some
            THEN <<Pair(KeyPiecesRoot, WBytes(file_info.pieces_root.value.hex.bytes))>>
            ELSE <<>>)))

\* The keys of a BTreeMap in the order of its iterator.
RECURSIVE BTreeKeys(_)
BTreeKeys(keys) ==
    IF keys = {} THEN <<>>
    ELSE LET least == CHOOSE k \in keys : \A other \in keys : ~BytesLess(other, k)
         IN <<least>> \o BTreeKeys(keys \ {least})

\* #[derive(Serialize)] for FileTree and FileTreeEntry (both transparent)
RECURSIVE ser_FileTree(_)
ser_FileTree(node) ==
    LET keys == BTreeKeys(DOMAIN node)
        ser_FileTreeEntry(entry) ==
            IF entry.either = "Left" THEN ser_FileTreeInfo(entry.file_info)
            ELSE ser_FileTree(entry.node)
    IN WDict(SortPairs([i \in DOMAIN keys |-> Pair(keys[i], ser_FileTreeEntry(node[keys[i]]))]))

\* Leaf dictionaries on the wire, each with its keys in ascending order.
Digest32 == [i \in 1..SHA256_LEN |-> "a"]
WireLeaves ==
    { WDict(<<Pair(KeyLength, WInt(<<"1">>))>>),
      WDict(<<Pair(KeyLength, WInt(<<"1", "0", "2", "4">>)),
              Pair(KeyPiecesRoot, WBytes(Digest32))>>),
      WDict(<<Pair(KeyAttr, WBytes(<<"h", "x">>)), Pair(KeyLength, WInt(<<"1">>))>>),
      WDict(<<Pair(KeyAttr, WBytes(<<"x", "h">>)), Pair(KeyLength, WInt(<<"1">>))>>),
      WDict(<<Pair(KeyAttr, WBytes(<<"X">>)), Pair(KeyLength, WInt(<<"1">>))>>),
      WDict(<<Pair(KeyAttr, WBytes(<<"q">>)), Pair(KeyLength, WInt(<<"1">>))>>),
      WDict(<<Pair(KeyLength, WInt(<<"0", "1">>))>>),
      WDict(<<Pair(KeyLength, WInt(<<"0">>))>>),
      WDict(<<Pair(KeyLength, WInt(<<"1">>)), Pair(KeyUnknown, WInt(<<"1">>))>>),
      WDict(<<Pair(KeyLength, WInt(<<"1">>)), Pair(KeyPiecesRoot, WBytes(Tail(Digest32)))>>),
      WDict(<<Pair(KeyAttr, WBytes(<<"x">>))>>) }

\* Names on the wire, ascending, and the number of named entries of a tree.
WireNames == << <<>>, <<"a">> >>
MaxWireEntries == 3

\* Every dictionary of at most n named entries, nested ones included, whose
\* values are leaf dictionaries or such dictionaries; the pairs are ascending.
RECURSIVE WirePairsOver(_, _)
WirePairsOver(keys, n) ==
    IF keys = <<>> \/ n = 0 THEN {<<>>}
    ELSE LET k == Head(keys)
             without == WirePairsOver(Tail(keys), n)
             with == UNION { UNION { { <<Pair(k, e)>> \o rest :
                                         rest \in WirePairsOver(Tail(keys), n - 1 - n1) }
                                     : e \in (IF n1 = 0 THEN WireLeaves ELSE {}) \cup
                                             {WDict(ps) : ps \in WirePairsOver(WireNames, n1)} }
                             : n1 \in 0..(n - 1) }
         IN without \cup with

WireFileTrees == {WDict(ps) : ps \in WirePairsOver(WireNames, MaxWireEntries)}

InitFileTreeCodec ==
    /\ input \in [file_tree : WireFileTrees, debug_assertions : BOOLEAN]
    /\ output = Pending
    /\ DfsIdle /\ HashIdle

\* FileTree::deserialize(&mut Deserializer::new(bytes))
DeserializeFileTree ==
    /\ output = Pending
    /\ output' = [decoded |-> de_FileTree(input.file_tree, input.debug_assertions)]
    /\ UNCHANGED <<input, dfsVars, hashVars>>

\* serde_bencode::to_bytes(&file_tree)
SerializeFileTree ==
    /\ DOMAIN output = {"decoded"} /\ output.decoded.ok
    /\ output' = [decoded |-> output.decoded,
                  encoded |-> bencode(ser_FileTree(output.decoded.value))]
    /\ UNCHANGED <<input, dfsVars, hashVars>>

NextFileTreeCodec == DeserializeFileTree \/ SerializeFileTree

SpecFileTreeCodec == InitFileTreeCodec /\ [][NextFileTreeCodec]_vars

\* C9: a file tree with canonically ordered dictionaries that decodes to a
\* FileTree is serialized to the bytes it was decoded from.
C9_FileTreeRoundTrip ==
    "file_tree" \in DOMAIN input /\ "encoded" \in DOMAIN output =>
        output.encoded = bencode(input.file_tree)

\* d1:ad0:d4:attr2:xh6:lengthi1eeee was decoded and written back with attr hx.
C9_Witness ==
    /\ "file_tree" \in DOMAIN input /\ "encoded" \in DOMAIN output
    /\ input.file_tree =
         WDict(<<Pair(<<"a">>, WDict(<<Pair(<<>>,
             WDict(<<Pair(KeyAttr, WBytes(<<"x", "h">>)), Pair(KeyLength, WInt(<<"1">>))>>))>>))>>)
    /\ output.encoded =
         bencode(WDict(<<Pair(<<"a">>, WDict(<<Pair(<<>>,
             WDict(<<Pair(KeyAttr, WBytes(<<"h", "x">>)), Pair(KeyLength, WInt(<<"1">>))>>))>>))>>))


(***************************************************************************)
(* Torrent and MetaInfo: serde                                             *)
(***************************************************************************)

KeyFileTree == <<"f", "i", "l", "e", " ", "t", "r", "e", "e">>
KeyMetaVersion == <<"m", "e", "t", "a", " ", "v", "e", "r", "s", "i", "o", "n">>
KeyMetaVersionField == <<"m", "e", "t", "a", "_", "v", "e", "r", "s", "i", "o", "n">>
KeyName == <<"n", "a", "m", "e">>
KeyPieceLength == <<"p", "i", "e", "c", "e", " ", "l", "e", "n", "g", "t", "h">>
KeyPrivate == <<"p", "r", "i", "v", "a", "t", "e">>
KeyRootHash == <<"r", "o", "o", "t", " ", "h", "a", "s", "h">>
KeyFiles == <<"f", "i", "l", "e", "s">>
KeyInfo == <<"i", "n", "f", "o">>
KeyUrlList == <<"u", "r", "l", "-", "l", "i", "s", "t">>
KeyPieces == <<"p", "i", "e", "c", "e", "s">>

\* The strings of the tests of UriWrapper.
EXAMPLE_OK == <<"h", "t", "t", "p", "s", ":", "/", "/", "e", "x", "a", "m", "p", "l", "e", ".", "c", "o", "m", "/">>
EXAMPLE_BAD == <<"/", "e", "t", "c", "/", "s", "h", "a", "d", "o", "w">>
EXAMPLE_TRACKER == <<"u", "d", "p", ":", "/", "/", "s", "o", "m", "e", "f", "a", "k", "e", "s", "i", "t", "e", "m", "e", "o", "w", ".", "f", "a", "k", "e", "t", "l", "d", ":", "6", "6", "6", "/", "a", "n", "n", "o", "u", "n", "c", "e">>

\* str::parse::<http::Uri> on the strings of the tests: what the string
\* displays as, and whether it has a host.
Uri_from_str(uri_str) ==
    IF uri_str \in {EXAMPLE_OK, EXAMPLE_TRACKER} THEN Ok([display |-> uri_str, host |-> TRUE])
    ELSE IF uri_str = EXAMPLE_BAD THEN Ok([display |-> uri_str, host |-> FALSE])
    ELSE Err([kind |-> "custom", msg |-> "invalid uri"])

\* impl Deserialize for UriWrapper
de_UriWrapper(w) ==
    IF w.type # "bytes" THEN Err([kind |-> "invalid_type", got |-> w.type])
    ELSE IF ~Uri_from_str(w.bytes).ok THEN Uri_from_str(w.bytes)
    ELSE IF Uri_from_str(w.bytes).value.host THEN Ok(Uri_from_str(w.bytes).value)
    ELSE Err([kind |-> "custom", msg |-> "relative URL without a base"])

\* HashSet<UriWrapper>::deserialize: equal elements are kept once.
de_HashSet_UriWrapper(w) ==
    IF w.type # "list" THEN Err([kind |-> "invalid_type", got |-> w.type])
    ELSE IF \E i \in DOMAIN w.items : ~de_UriWrapper(w.items[i]).ok
    THEN de_UriWrapper(w.items[CHOOSE i \in DOMAIN w.items :
            /\ ~de_UriWrapper(w.items[i]).ok
            /\ \A j \in DOMAIN w.items : j < i => de_UriWrapper(w.items[j]).ok])
    ELSE Ok({de_UriWrapper(w.items[i]).value : i \in DOMAIN w.items})

\* u8::deserialize
de_u8(w) ==
    IF w.type # "int" THEN Err([kind |-> "invalid_type", got |-> w.type])
    ELSE IF ~parse_int(w.text).ok THEN Err([kind |-> "invalid_integer", text |-> w.text])
    ELSE IF parse_int(w.text).value \notin 0..255
    THEN Err([kind |-> "invalid_value", got |-> parse_int(w.text).value])
    ELSE Ok(parse_int(w.text).value)

\* NonZeroU8::deserialize
de_NonZeroU8(w) ==
    IF de_u8(w).ok /\ de_u8(w).value = 0 THEN Err([kind |-> "invalid_value", got |-> 0])
    ELSE de_u8(w)

\* serde_bool_int::bool_from_int
bool_from_int(w) ==
    IF de_u8(w).ok
    THEN IF de_u8(w).value = 0 THEN Ok(FALSE)
         ELSE IF de_u8(w).value = 1 THEN Ok(TRUE)
         ELSE Err([kind |-> "invalid_value", got |-> de_u8(w).value])
    ELSE Ok(FALSE)

\* impl Deserialize for PieceLength
de_PieceLength(w) ==
    IF ~de_NonZeroU64(w).ok THEN de_NonZeroU64(w)
    ELSE IF de_NonZeroU64(w).value >= 16 /\ is_power_of_two(de_NonZeroU64(w).value)
    THEN de_NonZeroU64(w)
    ELSE Err([kind |-> "invalid_value", got |-> de_NonZeroU64(w).value])

\* String::deserialize (the byte strings of the documents are ASCII)
de_String(w) ==
    IF w.type # "bytes" THEN Err([kind |-> "invalid_type", got |-> w.type]) ELSE Ok(w.bytes)

\* Sha1::deserialize of a byte string
de_Sha1(w) ==
    IF w.type # "bytes" THEN Err([kind |-> "invalid_type", got |-> w.type])
    ELSE deserialize_digest("Sha1", w.bytes)

\* An internally tagged enum read from a list: the first element is the tag
\* and the elements after it are the content.  Vec<FlatFile> is read from the
\* content of files, and NonZeroU64 is not read from a sequence.  The lists
\* decoded here hold no dictionary, so the Vec<FlatFile> read is empty.
MetaV1FileRepr_visit_seq(items) ==
    IF items = <<>> THEN Err([kind |-> "missing_field", field |-> "untagged"])
    ELSE IF Head(items).type # "bytes"
    THEN Err([kind |-> "invalid_type", got |-> Head(items).type])
    ELSE IF Head(items).bytes = KeyFiles
    THEN IF \E i \in DOMAIN Tail(items) : Tail(items)[i].type # "dict"
         THEN Err([kind |-> "invalid_type", got |-> "not a map"])
         ELSE Ok([variant |-> "Multiple", files |-> <<>>])
    ELSE IF Head(items).bytes = KeyLength
    THEN Err([kind |-> "invalid_type", got |-> "sequence"])
    ELSE Err([kind |-> "unknown_variant", variant |-> Head(items).bytes])

\* MetaV1FileRepr::deserialize: #[serde(tag = "untagged")] looks for the tag
\* untagged.  An integer and a byte string carry none; a dictionary with the
\* tag leaves a map, from which neither Vec<FlatFile> nor NonZeroU64 is read;
\* a list carries the tag as its first element.
de_MetaV1FileRepr(w) ==
    IF w.type = "list" THEN MetaV1FileRepr_visit_seq(w.items)
    ELSE IF w.type = "dict" /\ \E i \in DOMAIN w.pairs :
                             w.pairs[i].key = <<"u", "n", "t", "a", "g", "g", "e", "d">>
    THEN Err([kind |-> "invalid_type", got |-> "map"])
    ELSE IF w.type = "dict" THEN Err([kind |-> "missing_field", field |-> "untagged"])
    ELSE Err([kind |-> "invalid_type", got |-> w.type])

\* impl Deserialize for Pieces: a byte string of a multiple of 20 bytes
de_Pieces(w) ==
    IF w.type # "bytes" THEN Err([kind |-> "invalid_type", got |-> w.type])
    ELSE IF Len(w.bytes) % SHA1_LEN = 0 THEN Ok(w.bytes)
    ELSE Err([kind |-> "invalid_length", got |-> Len(w.bytes)])

\* Option<Vec<FlatFile>>::deserialize: the lists decoded here hold no
\* dictionary, and nothing else is a FlatFile.
de_Vec_FlatFile(w) ==
    IF w.type # "list" THEN Err([kind |-> "invalid_type", got |-> w.type])
    ELSE IF w.items # <<>> THEN Err([kind |-> "invalid_type", got |-> Head(w.items).type])
    ELSE Ok(<<>>)

\* The value of a field of an info dictionary, read as the type of the field.
de_typed(type, w, debug_assertions) ==
    CASE type = "FileTree" -> de_FileTree(w, debug_assertions)
      [] type = "String" -> de_String(w)
      [] type = "u8" -> de_u8(w)
      [] type = "NonZeroU8" -> de_NonZeroU8(w)
      [] type = "NonZeroU64" -> de_NonZeroU64(w)
      [] type = "PieceLength" -> de_PieceLength(w)
      [] type = "bool_from_int" -> bool_from_int(w)
      [] type = "Sha1" -> de_Sha1(w)
      [] type = "MetaV1FileRepr" -> de_MetaV1FileRepr(w)
      [] type = "Pieces" -> de_Pieces(w)
      [] type = "Vec<FlatFile>" -> de_Vec_FlatFile(w)

\* What MapAccess hands to the visitor of a struct of an info dictionary: the
\* keys in the order of the document, whether the struct has a field of that
\* key, and what next_value gives for it; schema is the type of each field.
MapAccess(pairs, schema, debug_assertions) ==
    [i \in DOMAIN pairs |->
        [key |-> pairs[i].key,
         known |-> pairs[i].key \in DOMAIN schema,
         next_value |-> IF pairs[i].key \in DOMAIN schema
                        THEN de_typed(schema[pairs[i].key], pairs[i].value, debug_assertions)
                        ELSE None]]

\* The loop of a derived struct visitor over the entries of a dictionary; deny
\* is deny_unknown_fields.  A field met twice is refused before its value is read.
RECURSIVE visit_map(_, _, _)
visit_map(map, fields, deny) ==
    IF map = <<>> THEN Ok(fields)
    ELSE IF Head(map).known
    THEN IF Head(map).key \in DOMAIN fields
         THEN Err([kind |-> "duplicate_field", field |-> Head(map).key])
         ELSE IF ~Head(map).next_value.ok THEN Head(map).next_value
         ELSE visit_map(Tail(map), Put(Head(map).key, Head(map).next_value.value, fields), deny)
    ELSE IF deny THEN Err([kind |-> "unknown_field", field |-> Head(map).key])
    ELSE visit_map(Tail(map), fields, deny)

\* A field with #[serde(default)] or of an Option type, and a required one.
Field(fields, key) == IF key \in DOMAIN fields THEN Some(fields[key]) ELSE None
Missing(fields, required) ==
    {i \in DOMAIN required : required[i] \notin DOMAIN fields}
missing_field(fields, required) ==
    Err([kind |-> "missing_field",
         field |-> required[CHOOSE i \in Missing(fields, required) :
                              \A j \in Missing(fields, required) : i <= j]])

\* The documents decoded here hold no md5sum.
MetaV1Schema ==
    KeyFiles :> "MetaV1FileRepr" @@ KeyLength :> "NonZeroU64" @@ KeyName :> "String"
    @@ KeyPieces :> "Pieces"
    @@ KeyPieceLength :> "PieceLength" @@ KeyPrivate :> "bool_from_int"

\* The end of the visitor of MetaV1: the fields without a default are asked for.
MetaV1_visited(visited) ==
    LET required == <<KeyFiles, KeyName, KeyPieces, KeyPieceLength>>
    IN IF ~visited.ok THEN visited
       ELSE IF Missing(visited.value, required) # {}
       THEN missing_field(visited.value, required)
       ELSE Ok([variant |-> "MetaV1",
                     files |-> visited.value[KeyFiles],
                     length |-> Field(visited.value, KeyLength),
                     name |-> visited.value[KeyName],
                     pieces |-> visited.value[KeyPieces],
                     piece_length |-> visited.value[KeyPieceLength],
                     private |-> IF KeyPrivate \in DOMAIN visited.value
                                 THEN visited.value[KeyPrivate] ELSE FALSE])

\* #[derive(Deserialize)] #[serde(deny_unknown_fields)] for MetaV1
de_MetaV1(w, debug_assertions) ==
    IF w.type # "dict" THEN Err([kind |-> "invalid_type", got |-> w.type])
    ELSE MetaV1_visited(visit_map(MapAccess(w.pairs, MetaV1Schema, debug_assertions),
                                  EmptyMap, TRUE))

MetaV2Schema ==
    KeyFileTree :> "FileTree" @@ KeyName :> "String" @@ KeyMetaVersionField :> "NonZeroU8"
    @@ KeyPieceLength :> "PieceLength" @@ KeyPrivate :> "bool_from_int" @@ KeyRootHash :> "Sha1"

\* The end of the visitor of MetaV2.
MetaV2_visited(visited) ==
    LET required == <<KeyFileTree, KeyName, KeyMetaVersionField, KeyPieceLength, KeyRootHash>>
    IN IF ~visited.ok THEN visited
       ELSE IF Missing(visited.value, required) # {}
       THEN missing_field(visited.value, required)
       ELSE Ok([variant |-> "MetaV2",
                     file_tree |-> visited.value[KeyFileTree],
                     name |-> visited.value[KeyName],
                     meta_version |-> visited.value[KeyMetaVersionField],
                     piece_length |-> visited.value[KeyPieceLength],
                     private |-> IF KeyPrivate \in DOMAIN visited.value
                                 THEN visited.value[KeyPrivate] ELSE FALSE,
                     root_hash |-> visited.value[KeyRootHash]])

\* #[derive(Deserialize)] #[serde(deny_unknown_fields)] for MetaV2
de_MetaV2(w, debug_assertions) ==
    IF w.type # "dict" THEN Err([kind |-> "invalid_type", got |-> w.type])
    ELSE MetaV2_visited(visit_map(MapAccess(w.pairs, MetaV2Schema, debug_assertions),
                                  EmptyMap, TRUE))

\* The documents decoded here hold no md5sum.
HybridSchema ==
    KeyFiles :> "Vec<FlatFile>"
    @@ KeyFileTree :> "FileTree" @@ KeyLength :> "NonZeroU64" @@ KeyMetaVersion :> "u8"
    @@ KeyName :> "String" @@ KeyPieces :> "Pieces" @@ KeyPieceLength :> "PieceLength"
    @@ KeyPrivate :> "bool_from_int" @@ KeyRootHash :> "Sha1"

\* The end of the visitor of Hybrid.
Hybrid_visited(visited) ==
    LET required == <<KeyName, KeyPieceLength>>
    IN IF ~visited.ok THEN visited
       ELSE IF Missing(visited.value, required) # {}
       THEN missing_field(visited.value, required)
       ELSE Ok([variant |-> "Hybrid",
                     files |-> Field(visited.value, KeyFiles),
                     file_tree |-> Field(visited.value, KeyFileTree),
                     length |-> Field(visited.value, KeyLength),
                     meta_version |-> Field(visited.value, KeyMetaVersion),
                     name |-> visited.value[KeyName],
                     pieces |-> Field(visited.value, KeyPieces),
                     piece_length |-> visited.value[KeyPieceLength],
                     private |-> IF KeyPrivate \in DOMAIN visited.value
                                 THEN visited.value[KeyPrivate] ELSE FALSE,
                     root_hash |-> Field(visited.value, KeyRootHash)])

\* #[derive(Deserialize)] #[cfg_attr(debug_assertions, serde(deny_unknown_fields))] for Hybrid
de_Hybrid(w, debug_assertions) ==
    IF w.type # "dict" THEN Err([kind |-> "invalid_type", got |-> w.type])
    ELSE Hybrid_visited(visit_map(MapAccess(w.pairs, HybridSchema, debug_assertions),
                                  EmptyMap, debug_assertions))

\* A slip: the last of the variants that the content decodes as.
untagged_last(variants) ==
    IF \A i \in DOMAIN variants : ~variants[i].ok
    THEN Err([kind |-> "custom",
              msg |-> "data did not match any variant of untagged enum MetaInfo"])
    ELSE variants[CHOOSE i \in DOMAIN variants :
                    /\ variants[i].ok
                    /\ \A j \in DOMAIN variants : j > i => ~variants[j].ok]

\* An untagged enum is the first of its variants, in the order they are
\* declared, that the content decodes as.
untagged(variants) ==
    IF \A i \in DOMAIN variants : ~variants[i].ok
    THEN Err([kind |-> "custom",
              msg |-> "data did not match any variant of untagged enum MetaInfo"])
    ELSE variants[CHOOSE i \in DOMAIN variants :
                    /\ variants[i].ok
                    /\ \A j \in DOMAIN variants : j < i => ~variants[j].ok]

\* #[derive(Deserialize)] #[serde(untagged)] for MetaInfo: MetaV1, MetaV2, Hybrid
de_MetaInfo(w, debug_assertions) ==
    untagged(<<de_MetaV1(w, debug_assertions), de_MetaV2(w, debug_assertions),
               de_Hybrid(w, debug_assertions)>>)

\* What MapAccess hands to the visitor of Torrent.  Of the optional fields of
\* Torrent the documents decoded here hold url-list.
TorrentMapAccess(pairs, debug_assertions) ==
    [i \in DOMAIN pairs |->
        [key |-> pairs[i].key,
         known |-> pairs[i].key \in {KeyInfo, KeyUrlList},
         next_value |-> IF pairs[i].key = KeyInfo
                        THEN de_MetaInfo(pairs[i].value, debug_assertions)
                        ELSE IF pairs[i].key = KeyUrlList
                        THEN de_HashSet_UriWrapper(pairs[i].value)
                        ELSE None]]

\* The end of the visitor of Torrent.
Torrent_visited(visited) ==
    IF ~visited.ok THEN visited
    ELSE IF Missing(visited.value, <<KeyInfo>>) # {}
    THEN missing_field(visited.value, <<KeyInfo>>)
    ELSE Ok([info |-> visited.value[KeyInfo],
             url_list |-> Field(visited.value, KeyUrlList)])

\* #[derive(Deserialize)] #[cfg_attr(debug_assertions, serde(deny_unknown_fields))] for Torrent
de_Torrent(w, debug_assertions) ==
    IF w.type # "dict" THEN Err([kind |-> "invalid_type", got |-> w.type])
    ELSE Torrent_visited(visit_map(TorrentMapAccess(w.pairs, debug_assertions),
                                   EmptyMap, debug_assertions))

\* serde_bool_int::bool_to_int
bool_to_int(private) == WInt(IF private THEN <<"1">> ELSE <<"0">>)

\* The field private has no Option type: skip_serializing_none leaves it alone
\* and it is always written.
private_always(private) == <<Pair(KeyPrivate, bool_to_int(private))>>

\* A field that #[skip_serializing_none] leaves out when it is None.
Skippable(key, field, ser(_)) == IF field.some THEN <<Pair(key, ser(field.value))>> ELSE <<>>

ser_u64(n) == WInt(to_decimal(n))
\* Vec<FlatFile>::serialize of the empty list
ser_Vec_FlatFile(files) == WList(<<>>)
ser_digest(digest) == WBytes(digest.hex.bytes)

\* #[derive(Serialize)] for MetaV2
ser_MetaV2(i) ==
    WDict(SortPairs(<<Pair(KeyFileTree, ser_FileTree(i.file_tree)),
                      Pair(KeyName, WBytes(i.name)),
                      Pair(KeyMetaVersionField, ser_u64(i.meta_version)),
                      Pair(KeyPieceLength, ser_u64(i.piece_length))>>
                    \o private_always(i.private)
                    \o <<Pair(KeyRootHash, ser_digest(i.root_hash))>>))

\* #[skip_serializing_none] #[derive(Serialize)] for Hybrid
ser_Hybrid(i) ==
    WDict(SortPairs(Skippable(KeyFiles, i.files, ser_Vec_FlatFile)
                    \o Skippable(KeyFileTree, i.file_tree, ser_FileTree)
                    \o Skippable(KeyLength, i.length, ser_u64)
                    \o Skippable(KeyMetaVersion, i.meta_version, ser_u64)
                    \o <<Pair(KeyName, WBytes(i.name))>>
                    \o Skippable(KeyPieces, i.pieces, WBytes)
                    \o <<Pair(KeyPieceLength, ser_u64(i.piece_length))>>
                    \o private_always(i.private)
                    \o Skippable(KeyRootHash, i.root_hash, ser_digest)))

\* #[derive(Serialize)] #[serde(untagged)] for MetaInfo.  None of the documents
\* decoded here gives a MetaV1.
ser_MetaInfo(i) == IF i.variant = "MetaV2" THEN ser_MetaV2(i) ELSE ser_Hybrid(i)

\* The orders in which a HashSet may hand out its elements.
IterationOrders(set) ==
    {order \in [1..Cardinality(set) -> set] :
        \A i, j \in 1..Cardinality(set) : order[i] = order[j] => i = j}

\* #[skip_serializing_none] #[derive(Serialize)] for Torrent; url_order is the
\* order in which the HashSet of url_list is iterated.
ser_Torrent(torrent, url_order) ==
    WDict(SortPairs(<<Pair(KeyInfo, ser_MetaInfo(torrent.info))>>
                    \o (IF torrent.url_list.some
                        THEN <<Pair(KeyUrlList,
                                    WList([i \in DOMAIN url_order |->
                                              WBytes(url_order[i].display)]))>>
                        ELSE <<>>)))

\* The documents: info dictionaries with and without each optional key, and
\* url-list with up to MaxUrls elements, repeated ones included.
MaxUrls == 2
OneFileTree ==
    WDict(<<Pair(<<"a">>, WDict(<<Pair(<<>>, WDict(<<Pair(KeyLength, WInt(<<"1">>))>>))>>))>>)
Optional(key, values) == {<<>>} \cup {<<Pair(key, v)>> : v \in values}
Followed(heads, tails) == {h \o t : h \in heads, t \in tails}
WireInfos ==
    {WDict(ps) : ps \in
        Followed(Optional(KeyFileTree, {OneFileTree}),
        Followed(Optional(KeyMetaVersion, {WInt(<<"2">>)}),
        Followed(Optional(KeyMetaVersionField, {WInt(<<"2">>)}),
        Followed({<<Pair(KeyName, WBytes(<<"a">>))>>},
        Followed({<<Pair(KeyPieceLength, WInt(t))>> : t \in {<<"1", "6">>, <<"1", "7">>}},
        Followed(Optional(KeyPrivate, {WInt(<<"0">>), WInt(<<"1">>), WInt(<<"2">>)}),
                 Optional(KeyRootHash, {WBytes([i \in 1..SHA1_LEN |-> "a"])})))))))}
WireUrlLists ==
    {WList([i \in DOMAIN urls |-> WBytes(urls[i])]) :
        urls \in Strings({EXAMPLE_OK, EXAMPLE_TRACKER, EXAMPLE_BAD}, MaxUrls)}
\* The info dictionaries that url lists are paired with: the smallest one that
\* decodes, without and with the private flag.
WireInfosWithUrls ==
    {WDict(<<Pair(KeyName, WBytes(<<"a">>)), Pair(KeyPieceLength, WInt(<<"1", "6">>))>> \o p) :
        p \in Optional(KeyPrivate, {WInt(<<"1">>)})}
\* Every info dictionary without a url list, and every url list over the
\* smallest info dictionaries; each with and without a key Torrent does not know.
WireTorrents ==
    {WDict(ps) : ps \in
        Followed({<<Pair(KeyInfo, i)>> : i \in WireInfos},
                 Optional(KeyUnknown, {WInt(<<"1">>)}))
        \cup
        Followed({<<Pair(KeyInfo, i)>> : i \in WireInfosWithUrls},
        Followed({<<Pair(KeyUrlList, l)>> : l \in WireUrlLists},
                 Optional(KeyUnknown, {WInt(<<"1">>)})))}

InitTorrentCodec ==
    /\ input \in [torrent : WireTorrents, debug_assertions : BOOLEAN]
    /\ output = Pending
    /\ DfsIdle /\ HashIdle

\* serde_bencode::from_bytes::<Torrent>(bytes)
DeserializeTorrent ==
    /\ output = Pending
    /\ output' = [decoded |-> de_Torrent(input.torrent, input.debug_assertions)]
    /\ UNCHANGED <<input, dfsVars, hashVars>>

\* serde_bencode::to_bytes(&torrent)
SerializeTorrent ==
    /\ DOMAIN output = {"decoded"} /\ output.decoded.ok
    /\ \E url_order \in IterationOrders(IF output.decoded.value.url_list.some
                                        THEN output.decoded.value.url_list.value ELSE {}) :
          output' = [decoded |-> output.decoded,
                     encoded |-> bencode(ser_Torrent(output.decoded.value, url_order))]
    /\ UNCHANGED <<input, dfsVars, hashVars>>

NextTorrentCodec == DeserializeTorrent \/ SerializeTorrent

SpecTorrentCodec == InitTorrentCodec /\ [][NextTorrentCodec]_vars

\* C10: a document with canonically ordered dictionaries that decodes to a
\* Torrent is encoded to the bytes it was decoded from: no key is added,
\* dropped or reordered, and url-list keeps its elements and their order.
C10_TorrentRoundTrip ==
    "torrent" \in DOMAIN input /\ "encoded" \in DOMAIN output =>
        output.encoded = bencode(input.torrent)

\* d4:infod4:name1:a12:piece lengthi16eee came back with 7:privatei0e added.
C10_Witness ==
    /\ "torrent" \in DOMAIN input /\ "encoded" \in DOMAIN output
    /\ input.torrent =
         WDict(<<Pair(KeyInfo, WDict(<<Pair(KeyName, WBytes(<<"a">>)),
                                       Pair(KeyPieceLength, WInt(<<"1", "6">>))>>))>>)
    /\ output.encoded =
         bencode(WDict(<<Pair(KeyInfo, WDict(<<Pair(KeyName, WBytes(<<"a">>)),
                                               Pair(KeyPieceLength, WInt(<<"1", "6">>)),
                                               Pair(KeyPrivate, WInt(<<"0">>))>>))>>))

(***************************************************************************)
(* UriWrapper (star-cloudburst uri/uriwrapper.rs) over http::Uri           *)
(***************************************************************************)

\* const SANCTIONED_SCHEMES
SANCTIONED_SCHEMES ==
    {<<"e", "d", "2", "k">>, <<"f", "t", "p">>, <<"h", "t", "t", "p">>,
     <<"h", "t", "t", "p", "s">>, <<"g", "o", "p", "h", "e", "r">>,
     <<"m", "a", "g", "n", "e", "t">>, <<"s", "f", "t", "p">>, <<"t", "c", "p">>,
     <<"t", "f", "t", "p">>, <<"u", "d", "p">>, <<"w", "s">>, <<"w", "s", "s">>}

IsAlpha(c) ==
    \/ \E i \in DOMAIN AsciiUpper : AsciiUpper[i] = c
    \/ \E i \in DOMAIN AsciiLower : AsciiLower[i] = c

\* http's SCHEME_CHARS: the bytes a scheme is made of.
IsSchemeChar(c) == IsAlpha(c) \/ IsDigit(c) \/ c \in {"+", "-", "."}

\* http's URI_CHARS, of the bytes that occur here: a space is not one.  The
\* strings parsed here hold none of @ [ ] % ? #.
IsUriChar(c) == IsAlpha(c) \/ IsDigit(c) \/ c \in {"+", "-", ".", ":", "/", "*"}

\* str::to_lowercase of ASCII text
str_to_lowercase(s) == [i \in DOMAIN s |-> char_to_ascii_lowercase(s[i])]

\* s[..n].eq_ignore_ascii_case(prefix)
starts_with_ignore_ascii_case(s, prefix) ==
    /\ Len(s) >= Len(prefix)
    /\ str_to_lowercase(SubSeq(s, 1, Len(prefix))) = prefix

\* The loop of Scheme2::parse from the i-th byte: the length of the scheme
\* when scheme bytes are followed by ://, and 0 when there is no scheme.
RECURSIVE Scheme2_scan(_, _)
Scheme2_scan(s, i) ==
    IF i > Len(s) THEN 0
    ELSE IF s[i] = ":"
    THEN IF Len(s) < i + 2 THEN 0
         ELSE IF SubSeq(s, i + 1, i + 2) # <<"/", "/">> THEN 0
         ELSE i - 1
    ELSE IF IsSchemeChar(s[i]) THEN Scheme2_scan(s, i + 1)
    ELSE 0

\* Scheme2::parse: http and https are recognised in any case and stored as the
\* standard schemes, whose text is lower-case; another scheme keeps its bytes.
\* consumed counts the scheme and its ://.
Scheme2_parse(s) ==
    IF starts_with_ignore_ascii_case(s, <<"h", "t", "t", "p", ":", "/", "/">>)
    THEN [scheme |-> Some(<<"h", "t", "t", "p">>), consumed |-> 7]
    ELSE IF starts_with_ignore_ascii_case(s, <<"h", "t", "t", "p", "s", ":", "/", "/">>)
    THEN [scheme |-> Some(<<"h", "t", "t", "p", "s">>), consumed |-> 8]
    ELSE IF Len(s) > 3 /\ Scheme2_scan(s, 1) > 0
    THEN [scheme |-> Some(SubSeq(s, 1, Scheme2_scan(s, 1))),
          consumed |-> Scheme2_scan(s, 1) + 3]
    ELSE [scheme |-> None, consumed |-> 0]

\* The number of bytes before the first / of s.
RECURSIVE authority_end(_)
authority_end(s) ==
    IF s = <<>> \/ Head(s) = "/" THEN 0 ELSE 1 + authority_end(Tail(s))

\* Authority::parse: the end of the authority; a byte that is no URI byte and
\* a second colon are refused.
Authority_parse(s) ==
    IF \E i \in 1..authority_end(s) : ~IsUriChar(s[i]) THEN Err("InvalidUriChar")
    ELSE IF Cardinality({i \in 1..authority_end(s) : s[i] = ":"}) > 1
    THEN Err("InvalidAuthority")
    ELSE Ok(authority_end(s))

\* Authority::try_from(String): the whole text has to be an authority.
Authority_try_from(s) ==
    IF s = <<>> THEN Err("Empty")
    ELSE IF ~Authority_parse(s).ok THEN Authority_parse(s)
    ELSE IF Authority_parse(s).value # Len(s) THEN Err("InvalidUriChar")
    ELSE Ok(s)

\* PathAndQuery::from_shared on text without ? and #
PathAndQuery_from_shared(s) ==
    IF \E i \in DOMAIN s : ~IsUriChar(s[i]) THEN Err("InvalidUriChar") ELSE Ok(s)

\* What parse_full does with the text after the scheme.
parse_after_scheme(scheme, rest) ==
    IF ~Authority_parse(rest).ok THEN Authority_parse(rest)
    ELSE IF ~scheme.some
    THEN IF Authority_parse(rest).value # Len(rest) THEN Err("InvalidFormat")
         ELSE Ok([scheme |-> None, authority |-> rest, path_and_query |-> <<>>])
    ELSE IF Authority_parse(rest).value = 0 THEN Err("InvalidFormat")
    ELSE IF ~PathAndQuery_from_shared(Drop(rest, Authority_parse(rest).value)).ok
    THEN PathAndQuery_from_shared(Drop(rest, Authority_parse(rest).value))
    ELSE Ok([scheme |-> scheme,
             authority |-> SubSeq(rest, 1, Authority_parse(rest).value),
             path_and_query |-> Drop(rest, Authority_parse(rest).value)])

\* http's parse_full: the scheme, then the authority, then path and query.
parse_full(s) ==
    parse_after_scheme(Scheme2_parse(s).scheme, Drop(s, Scheme2_parse(s).consumed))

\* <Uri as FromStr>::from_str: the empty text is refused, text that starts
\* with / is a path without an authority, * is the asterisk form.
Uri_from_shared(s) ==
    IF s = <<>> THEN Err("Empty")
    ELSE IF s = <<"*">> THEN Ok([scheme |-> None, authority |-> <<>>, path_and_query |-> s])
    ELSE IF s[1] = "/"
    THEN IF PathAndQuery_from_shared(s).ok
         THEN Ok([scheme |-> None, authority |-> <<>>, path_and_query |-> s])
         ELSE PathAndQuery_from_shared(s)
    ELSE parse_full(s)

\* Uri::has_path
has_path(uri) == uri.path_and_query # <<>> \/ uri.scheme.some

\* Uri::path: an empty path of a URI with a scheme reads /.
Uri_path(uri) ==
    IF ~has_path(uri) THEN <<>>
    ELSE IF uri.path_and_query = <<>> THEN <<"/">> ELSE uri.path_and_query

\* impl Display for Uri
Uri_to_string(uri) ==
    (IF uri.scheme.some THEN uri.scheme.value \o <<":", "/", "/">> ELSE <<>>)
    \o uri.authority \o Uri_path(uri)

\* The number of bytes before the first colon of an authority.
RECURSIVE host_end(_)
host_end(authority) ==
    IF authority = <<>> \/ Head(authority) = ":" THEN 0 ELSE 1 + host_end(Tail(authority))

\* A host that every URI has.
host_of_anything(uri) == Some(SubSeq(uri.authority, 1, host_end(uri.authority)))

\* Uri::host: the host of the authority, when there is an authority.
host(uri) ==
    IF uri.authority = <<>> THEN None
    ELSE Some(SubSeq(uri.authority, 1, host_end(uri.authority)))

\* Uri::into_parts
into_parts(uri) ==
    [scheme |-> uri.scheme,
     authority |-> IF uri.authority = <<>> THEN None ELSE Some(uri.authority),
     path_and_query |-> IF has_path(uri) THEN Some(uri.path_and_query) ELSE None]

\* Uri::from_parts
Uri_from_parts(parts) ==
    IF parts.scheme.some /\ ~parts.authority.some THEN Err("AuthorityMissing")
    ELSE IF parts.scheme.some /\ ~parts.path_and_query.some THEN Err("PathAndQueryMissing")
    ELSE IF ~parts.scheme.some /\ parts.authority.some /\ parts.path_and_query.some
    THEN Err("SchemeMissing")
    ELSE Ok([scheme |-> parts.scheme,
             authority |-> IF parts.authority.some THEN parts.authority.value ELSE <<>>,
             path_and_query |-> IF parts.path_and_query.some
                                THEN parts.path_and_query.value ELSE <<>>])

\* Result::unwrap: an Err panics.
unwrap(result) ==
    IF result.ok THEN result ELSE Err([kind |-> "panic", error |-> result.error])

\* The scheme of the parts, lower-cased and looked up in SANCTIONED_SCHEMES,
\* and the wrapper made of the parts.
sanctioned_parts(parts) ==
    IF parts.scheme.some
    THEN IF str_to_lowercase(parts.scheme.value) \in SANCTIONED_SCHEMES
         THEN unwrap(Uri_from_parts(
                  [parts EXCEPT !.scheme = Some(str_to_lowercase(parts.scheme.value))]))
         ELSE Err([kind |-> "custom", msg |-> "invalid scheme",
                   scheme |-> str_to_lowercase(parts.scheme.value)])
    ELSE unwrap(Uri_from_parts(parts))

\* The closure of UriWrapper::from_str: a URI without a host is refused.
absolute_and_sanctioned(parsed) ==
    IF ~parsed.ok THEN Err([kind |-> "custom", msg |-> parsed.error])
    ELSE IF host(parsed.value).some THEN sanctioned_parts(into_parts(parsed.value))
    ELSE Err([kind |-> "custom", msg |-> "relative URL without a base"])

\* impl FromStr for UriWrapper
UriWrapper_from_str(s) == absolute_and_sanctioned(Uri_from_shared(s))

\* The texts parsed: a scheme or none, an authority or none, a path or none,
\* and the asterisk.
UriSchemes ==
    {<<>>,
     <<"h", "t", "t", "p", ":", "/", "/">>, <<"H", "t", "t", "p", ":", "/", "/">>,
     <<"h", "t", "t", "p", "s", ":", "/", "/">>,
     <<"u", "d", "p", ":", "/", "/">>, <<"U", "D", "P", ":", "/", "/">>,
     <<"w", "s", ":", "/", "/">>,
     <<"f", "i", "l", "e", ":", "/", "/">>, <<"F", "i", "l", "e", ":", "/", "/">>,
     <<"x", "-", "y", ":", "/", "/">>}
UriAuthorities ==
    {<<>>, <<"a">>, <<"a", ".", "b">>, <<"a", ":", "8", "0">>, <<"1", ".", "1", ":", "8">>,
     <<"a", " ", "b">>, <<"a", ":", "8", ":", "8">>}
UriPaths == {<<>>, <<"/">>, <<"/", "e", "t", "c", "/", "s", "h", "a", "d", "o", "w">>,
             <<"/", "a", " ", "b">>}
UriTexts == Followed(UriSchemes, Followed(UriAuthorities, UriPaths)) \cup {<<"*">>}

InitUri ==
    /\ input \in [uri : UriTexts]
    /\ output = Pending
    /\ DfsIdle /\ HashIdle

\* s.parse::<UriWrapper>()
ParseUri ==
    /\ output = Pending
    /\ output' = [parsed |-> UriWrapper_from_str(input.uri)]
    /\ UNCHANGED <<input, dfsVars, hashVars>>

NextUri == ParseUri

SpecUri == InitUri /\ [][NextUri]_vars

\* A relative reference: text that names no host, a path or the asterisk.
RelativeReference(s) == s # <<>> /\ s[1] \in {"/", "*"}

\* C11: a text that parses to a URI without a host is refused with the error
\* relative URL without a base, and no UriWrapper holds a URI without a host.
C11_RelativeRefused ==
    "uri" \in DOMAIN input /\ "parsed" \in DOMAIN output =>
        /\ RelativeReference(input.uri) /\ Uri_from_shared(input.uri).ok =>
              /\ ~output.parsed.ok
              /\ output.parsed.error =
                   [kind |-> "custom", msg |-> "relative URL without a base"]
        /\ output.parsed.ok => output.parsed.value.authority # <<>>

\* /etc/shadow was refused as relative.
C11_Witness ==
    /\ "uri" \in DOMAIN input /\ "parsed" \in DOMAIN output
    /\ input.uri = EXAMPLE_BAD
    /\ output.parsed = Err([kind |-> "custom", msg |-> "relative URL without a base"])

\* C12: an accepted URI has a scheme, stored in lower case, that is one of
\* SANCTIONED_SCHEMES, and a URI with another scheme is refused with the error
\* invalid scheme that names the scheme.
C12_OnlySanctionedSchemes ==
    "uri" \in DOMAIN input /\ "parsed" \in DOMAIN output =>
        /\ output.parsed.ok =>
              /\ output.parsed.value.scheme.some
              /\ output.parsed.value.scheme.value \in SANCTIONED_SCHEMES
        /\ /\ Uri_from_shared(input.uri).ok
           /\ Uri_from_shared(input.uri).value.scheme.some
           /\ str_to_lowercase(Uri_from_shared(input.uri).value.scheme.value)
                 \notin SANCTIONED_SCHEMES
           => /\ ~output.parsed.ok
              /\ output.parsed.error.msg = "invalid scheme"
              /\ output.parsed.error.scheme =
                   str_to_lowercase(Uri_from_shared(input.uri).value.scheme.value)

\* a:80 was accepted and has no scheme.
C12_Witness ==
    /\ "uri" \in DOMAIN input /\ "parsed" \in DOMAIN output
    /\ input.uri = <<"a", ":", "8", "0">>
    /\ output.parsed.ok
    /\ ~output.parsed.value.scheme.some

(***************************************************************************)
(* Node (star-cloudburst uri/node.rs)                                      *)
(***************************************************************************)

u16 == [signed |-> FALSE, min |-> 0, max |-> 65535]

\* Uri::from_parts of the parts with the new authority.
node_from_parts(from_parts) ==
    IF ~from_parts.ok
    THEN Err([kind |-> "custom", msg |-> "Invalid URI despite correct Parts"])
    ELSE Ok(from_parts.value)

\* The parts with the authority that try_into made of authority:port.
parts_with_authority(parts, authority) ==
    IF ~authority.ok
    THEN Err([kind |-> "custom",
              msg |-> "Previously valid authority is invalid after appending a port number"])
    ELSE node_from_parts(Uri_from_parts([parts EXCEPT !.authority = Some(authority.value)]))

\* The port is appended to the authority of the parts.
append_port(parts, port) ==
    IF ~parts.authority.some THEN Err([kind |-> "invalid_value", got |-> "Option"])
    ELSE parts_with_authority(parts,
             Authority_try_from(parts.authority.value \o <<":">> \o to_decimal(port)))

\* NodeTemp::deserialize, then the port is spliced into the URI.
node_of_temp(uri, port) ==
    IF ~uri.ok THEN uri ELSE append_port(into_parts(uri.value), port)

\* impl Deserialize for Node, of the pair (uri, port)
de_Node(uri_text, port) == node_of_temp(UriWrapper_from_str(uri_text), port)

\* The byte positions (counted from 1) of the colons of an authority.
colons(authority) == {i \in DOMAIN authority : authority[i] = ":"}

\* Authority::port: the text after the last colon, when it reads as a u16.
Authority_port(authority) ==
    IF colons(authority) = {} THEN None
    ELSE LET i == CHOOSE c \in colons(authority) : \A d \in colons(authority) : d <= c
             repr == Drop(authority, i)
         IN IF from_str(repr, u16).ok
            THEN Some([repr |-> repr, port |-> from_str(repr, u16).value])
            ELSE None

\* The positions (counted from 1) at which the closure given to rfind
\* answers true.  rfind offers the characters of the authority from the last
\* one backwards, and the closure compares the k-th character it is offered
\* with the k-th character of : followed by the port.
port_find(authority, port_str) ==
    {i \in DOMAIN authority :
        LET k == Len(authority) - i + 1
        IN k <= Len(port_str) + 1 /\ authority[i] = (<<":">> \o port_str)[k]}

\* authority.rfind(closure): the byte index, counted from 0, of the first
\* character for which the closure answers true.
rfind_port(authority, port_str) ==
    IF port_find(authority, port_str) = {} THEN None
    ELSE Some((CHOOSE i \in port_find(authority, port_str) :
                  \A j \in port_find(authority, port_str) : j <= i) - 1)

\* The pair emitted for the recombined text.
node_temp(parsed, port) ==
    IF ~parsed.ok
    THEN Err([kind |-> "custom",
              msg |-> "Invalid URI after splitting and recombining Node"])
    ELSE Ok([uri |-> Uri_to_string(parsed.value), port |-> port])

\* format!("{scheme}{scheme_sep}{authority_before}{authority_after}/{query}"):
\* the slice &authority[port_pos + port_str.len()..] panics when it starts
\* after the end of the authority.
recombine(uri, port, port_pos) ==
    IF port_pos + Len(port.repr) > Len(uri.authority)
    THEN Err([kind |-> "panic", error |-> "byte index out of range"])
    ELSE node_temp(Uri_from_shared(
             (IF uri.scheme.some THEN uri.scheme.value \o <<":", "/", "/">> ELSE <<>>)
             \o SubSeq(uri.authority, 1, port_pos)
             \o Drop(uri.authority, port_pos + Len(port.repr))
             \o <<"/">>
             \o (IF has_path(uri) THEN Uri_path(uri) ELSE <<>>)),
           port.port)

\* The port of the URI is looked for in the authority.
split_port(uri, port) ==
    IF ~port.some
    THEN Err([kind |-> "custom",
              msg |-> "Port is missing but is canonically always available."])
    ELSE IF ~rfind_port(uri.authority, port.value.repr).some
    THEN Err([kind |-> "custom",
              msg |-> "Port is missing but is canonically always available."])
    ELSE recombine(uri, port.value, rfind_port(uri.authority, port.value.repr).value)

\* impl Serialize for Node
ser_Node(uri) ==
    IF uri.authority = <<>>
    THEN Err([kind |-> "custom", msg |-> "URI is missing an authority."])
    ELSE split_port(uri, Authority_port(uri.authority))

\* The pairs decoded: a URI of a sanctioned scheme or of none, and a port.
NodeSchemes == {<<>>, <<"h", "t", "t", "p", ":", "/", "/">>,
                <<"u", "d", "p", ":", "/", "/">>, <<"w", "s", ":", "/", "/">>}
NodeAuthorities == {<<"a">>, <<"a", ".", "b">>, <<"1", ".", "1">>, <<"a", ":", "8", "0">>}
NodePaths == {<<>>, <<"/">>, <<"/", "x">>}
NodeUris == Followed(NodeSchemes, Followed(NodeAuthorities, NodePaths))
NodePorts == {8, 80, 88, 666, 6881}

InitNode ==
    /\ input \in [node_uri : NodeUris, port : NodePorts]
    /\ output = Pending
    /\ DfsIdle /\ HashIdle

\* Node::deserialize of the pair (node_uri, port)
DeserializeNode ==
    /\ output = Pending
    /\ output' = [node |-> de_Node(input.node_uri, input.port)]
    /\ UNCHANGED <<input, dfsVars, hashVars>>

\* Node::serialize of the decoded Node
SerializeNode ==
    /\ DOMAIN output = {"node"} /\ output.node.ok
    /\ output' = [node |-> output.node, emitted |-> ser_Node(output.node.value)]
    /\ UNCHANGED <<input, dfsVars, hashVars>>

\* Node::deserialize of the emitted pair
DeserializeEmitted ==
    /\ DOMAIN output = {"node", "emitted"} /\ output.emitted.ok
    /\ output' = [node |-> output.node, emitted |-> output.emitted,
                  again |-> de_Node(output.emitted.value.uri, output.emitted.value.port)]
    /\ UNCHANGED <<input, dfsVars, hashVars>>

NextNode == DeserializeNode \/ SerializeNode \/ DeserializeEmitted

SpecNode == InitNode /\ [][NextNode]_vars

\* The text of a URI whose authority ends with :port, with that ending taken out.
WithoutPort(uri, port) ==
    LET ending == <<":">> \o to_decimal(port)
        n == Len(uri.authority) - Len(ending)
    IN Uri_to_string([uri EXCEPT !.authority = SubSeq(uri.authority, 1, n)])

\* C13: serializing a decoded Node succeeds and emits the port of the Node and
\* the URI of the Node without :port in its authority, and decoding the
\* emitted pair gives the Node again.
C13_NodeRoundTrip ==
    /\ "node_uri" \in DOMAIN input /\ "emitted" \in DOMAIN output =>
          /\ output.emitted.ok
          /\ output.emitted.value.port = input.port
          /\ output.emitted.value.uri = WithoutPort(output.node.value, input.port)
    /\ "node_uri" \in DOMAIN input /\ "again" \in DOMAIN output =>
          output.again = output.node

\* The Node udp://a:80/x was emitted as the pair (udp://a://x, 80).
C13_Witness ==
    /\ "node_uri" \in DOMAIN input /\ "emitted" \in DOMAIN output
    /\ input.node_uri = <<"u", "d", "p", ":", "/", "/", "a", "/", "x">>
    /\ input.port = 80
    /\ output.node = Ok([scheme |-> Some(<<"u", "d", "p">>),
                         authority |-> <<"a", ":", "8", "0">>,
                         path_and_query |-> <<"/", "x">>])
    /\ output.emitted =
         Ok([uri |-> <<"u", "d", "p", ":", "/", "/", "a", ":", "/", "/", "x">>, port |-> 80])

(***************************************************************************)
(* InfoHashVersioned and its equality (star-cloudburst metainfo/infohash.rs)*)
(***************************************************************************)

\* Equality of the first digest each value holds, whatever its variant.
eq_of_first_digest(self, other) ==
    (IF self.variant = "V2" THEN self.sha2 ELSE self.sha1)
        = (IF other.variant = "V2" THEN other.sha2 ELSE other.sha1)

\* impl PartialEq for InfoHashVersioned
eq(self, other) ==
    IF self.variant = "V1" /\ other.variant = "V1" THEN self.sha1 = other.sha1
    ELSE IF self.variant = "V2" /\ other.variant = "V2" THEN self.sha2 = other.sha2
    ELSE IF self.variant = "Hybrid" /\ other.variant = "Hybrid"
    THEN self.sha1 = other.sha1 /\ self.sha2 = other.sha2
    ELSE FALSE

\* The digests compared: two values of each kind, the same bytes in both kinds.
HashBytes == {<<97>>, <<98>>}
InfoHashes ==
    [variant : {"V1"}, sha1 : HashBytes]
    \cup [variant : {"V2"}, sha2 : HashBytes]
    \cup [variant : {"Hybrid"}, sha1 : HashBytes, sha2 : HashBytes]

InitEq ==
    /\ input \in [self : InfoHashes, other : InfoHashes, third : InfoHashes]
    /\ output = Pending
    /\ DfsIdle /\ HashIdle

\* self == other, and the comparisons that go with it
Compare ==
    /\ output = Pending
    /\ output' = [self_other |-> eq(input.self, input.other),
                  other_self |-> eq(input.other, input.self),
                  self_self |-> eq(input.self, input.self),
                  other_third |-> eq(input.other, input.third),
                  self_third |-> eq(input.self, input.third)]
    /\ UNCHANGED <<input, dfsVars, hashVars>>

NextEq == Compare

SpecEq == InitEq /\ [][NextEq]_vars

\* The digests of a value, by kind; a value does not hold the absent kind.
Components(h) ==
    [sha1 |-> IF h.variant = "V2" THEN <<>> ELSE h.sha1,
     sha2 |-> IF h.variant = "V1" THEN <<>> ELSE h.sha2]

\* C14: two InfoHashVersioned values are equal exactly when they are of the
\* same variant and hold equal digests, and the relation is reflexive,
\* symmetric and transitive.
C14_VariantAwareEquality ==
    "self" \in DOMAIN input /\ "self_other" \in DOMAIN output =>
        /\ output.self_other <=>
              /\ input.self.variant = input.other.variant
              /\ Components(input.self) = Components(input.other)
        /\ output.self_self
        /\ output.self_other = output.other_self
        /\ output.self_other /\ output.other_third => output.self_third

\* A V1 and a V2 of the same bytes were compared and are not equal.
C14_Witness ==
    /\ "self" \in DOMAIN input /\ "self_other" \in DOMAIN output
    /\ input.self = [variant |-> "V1", sha1 |-> <<97>>]
    /\ input.other = [variant |-> "V2", sha2 |-> <<97>>]
    /\ ~output.self_other

\* The variant of InfoHashVersioned that goes with a variant of MetaInfo.
VersionedVariant(variant) ==
    CASE variant = "MetaV1" -> "V1" [] variant = "MetaV2" -> "V2" [] variant = "Hybrid" -> "Hybrid"

\* C15: info_hash() returns the InfoHashVersioned variant of the Torrent's
\* MetaInfo variant, V1 with the SHA-1 for MetaV1, V2 with the SHA-256 for
\* MetaV2 and Hybrid with both, each digest taken over the re-serialized info
\* dictionary.
C15_InfoHashOfVariant ==
    info # <<>> =>
        \A r \in Returned :
            /\ r.ok
            /\ r.value.variant = VersionedVariant(info.variant)
            /\ info.variant # "MetaV2" =>
                  r.value.sha1 = [digest |-> "sha1", of |-> [bencoded |-> info]]
            /\ info.variant # "MetaV1" =>
                  r.value.sha2 = [digest |-> "sha2", of |-> [bencoded |-> info]]

\* info_hash() of a Torrent that holds a MetaV1 returned an error.
C15_Witness ==
    /\ info # <<>> /\ info.variant = "MetaV1"
    /\ \E r \in Returned : ~r.ok

(***************************************************************************)
(* PieceLength::deserialize (star-cloudburst pieces.rs)                    *)
(***************************************************************************)

\* The integers decoded: the small ones, and the powers of two up to
\* 2^MaxPieceLengthExp with their neighbours.
MaxPieceLengthExp == 15
MaxSmallPieceLength == 33
PieceLengthValues ==
    0..MaxSmallPieceLength
    \cup UNION { {2 ^ k - 1, 2 ^ k, 2 ^ k + 1} : k \in 1..MaxPieceLengthExp }

\* The integer, with a sign or a leading zero in front of it, and a byte string.
PieceLengthWire ==
    {WInt(to_decimal(n)) : n \in PieceLengthValues}
    \cup {WInt(<<"-">> \o to_decimal(n)) : n \in {16}}
    \cup {WInt(<<"0">> \o to_decimal(n)) : n \in {16}}
    \cup {WBytes(<<"1", "6">>)}

InitPieceLength ==
    /\ input \in [piece_length : PieceLengthWire]
    /\ output = Pending
    /\ DfsIdle /\ HashIdle

\* PieceLength::deserialize
DeserializePieceLength ==
    /\ output = Pending
    /\ output' = [piece_length |-> de_PieceLength(input.piece_length)]
    /\ UNCHANGED <<input, dfsVars, hashVars>>

NextPieceLength == DeserializePieceLength

SpecPieceLength == InitPieceLength /\ [][NextPieceLength]_vars

\* The integer a wire integer stands for, and -1 for anything else.
WireValue(w) ==
    IF w.type = "int" /\ w.text # <<>> /\ \A i \in DOMAIN w.text : IsDigit(w.text[i])
    THEN Decimal(w.text) ELSE -1

\* C16: a PieceLength decodes exactly when the integer is a power of two and
\* at least 16 KiB, and every PieceLength is a power of two of at least 16 KiB.
C16_PowerOfTwoAtLeast16KiB ==
    "piece_length" \in DOMAIN input /\ "piece_length" \in DOMAIN output =>
        /\ output.piece_length.ok <=>
              /\ \E k \in 0..(MaxPieceLengthExp + 1) : WireValue(input.piece_length) = 2 ^ k
              /\ WireValue(input.piece_length) >= 16 * 1024
        /\ output.piece_length.ok =>
              /\ \E k \in 0..(MaxPieceLengthExp + 1) : output.piece_length.value = 2 ^ k
              /\ output.piece_length.value >= 16 * 1024

\* The piece length 16 was decoded.
C16_Witness ==
    /\ "piece_length" \in DOMAIN input /\ "piece_length" \in DOMAIN output
    /\ input.piece_length = WInt(<<"1", "6">>)
    /\ output.piece_length = Ok(16)

(***************************************************************************)
(* MetaInfo::iter_files and the Display of a Torrent                       *)
(***************************************************************************)

\* The thread unwinds with a panic / the value a call returns.
Panic(msg) == [panic |-> TRUE, msg |-> msg]
Returns(v) == [panic |-> FALSE, value |-> v]

FileDisplayInfo(file_path, name, length) ==
    [file_path |-> file_path, name |-> name, length |-> length]

\* The closure mapped over the Vec<FlatFile>: Vec::remove(len - 1) of the path.
\* On an empty path len - 1 overflows (a panic with overflow checks) or wraps
\* to usize::MAX, which Vec::remove refuses with a panic.
flatfile_multi_to_filedisplay(flat_file) ==
    IF flat_file.path = <<>> THEN Panic("removal index out of bounds")
    ELSE Returns(FileDisplayInfo(SubSeq(flat_file.path, 1, Len(flat_file.path) - 1),
                                 flat_file.path[Len(flat_file.path)], flat_file.length))

RECURSIVE FileTree_into_file_display(_, _)
\* impl IntoFileDisplayInfo for FileTree: iter_dfs() mapped to FileDisplayInfo,
\* every item of the iterator in its order.
FileTree_into_file_display(node, directory) ==
    LET keys == BTreeKeys(DOMAIN node)
        RECURSIVE Entries(_)
        Entries(i) ==
            IF i > Len(keys) THEN <<>>
            ELSE (IF node[keys[i]].either = "Left"
                  THEN <<Returns(FileDisplayInfo(directory, keys[i],
                                                 node[keys[i]].file_info.length))>>
                  ELSE FileTree_into_file_display(node[keys[i]].node,
                                                  Append(directory, keys[i])))
                 \o Entries(i + 1)
    IN Entries(1)

\* impl IntoFileDisplayInfo for MetaV1: the items of the lazy iterator
MetaV1_into_file_display(i) ==
    IF i.files.variant = "Single"
    THEN <<Returns(FileDisplayInfo(<<>>, i.name, i.files.length))>>
    ELSE [k \in DOMAIN i.files.files |-> flatfile_multi_to_filedisplay(i.files.files[k])]

\* MetaInfo::iter_files: the iterator, as the items it will yield.
iter_files(i) ==
    CASE i.variant = "MetaV1" -> Returns(MetaV1_into_file_display(i))
      [] i.variant = "MetaV2" -> Returns(FileTree_into_file_display(i.file_tree, <<"./">>))
      [] i.variant = "Hybrid" ->
            IF i.file_tree.some
            THEN Returns(FileTree_into_file_display(i.file_tree.value, <<"./">>))
            ELSE Panic("Hybrid torrent does not have FileTree")

\* Iterator::collect: the items, unless producing one of them panics.
collect(iter) ==
    IF iter.panic THEN iter
    ELSE IF \E k \in DOMAIN iter.value : iter.value[k].panic
    THEN iter.value[CHOOSE k \in DOMAIN iter.value :
                        /\ iter.value[k].panic
                        /\ \A j \in 1..(k - 1) : ~iter.value[j].panic]
    ELSE Returns([k \in DOMAIN iter.value |-> iter.value[k].value])

\* impl Display for Torrent: the field Files collects self.info.iter_files().
fmt(i) == collect(iter_files(i))

(***************************************************************************)
(* MetaInfo::deserialize of info dictionaries (star-cloudburst metainfo.rs)*)
(***************************************************************************)

\* A file tree whose only entry is an integer: neither a file nor a directory.
BrokenFileTree == WDict(<<Pair(<<"a">>, WInt(<<"1">>))>>)

\* The values of the key private: integers in and out of u8, and a byte string.
WirePrivates ==
    {WInt(<<"0">>), WInt(<<"1">>), WInt(<<"2">>), WInt(<<"-", "1">>),
     WInt(<<"2", "5", "6">>), WBytes(<<"1">>)}

\* The info dictionaries decoded: name and piece length, and each other key
\* absent or present, in ascending order of the keys.
WireInfoDicts ==
    {WDict(ps) : ps \in
        Followed(Optional(KeyFileTree, {OneFileTree, BrokenFileTree}),
        Followed(Optional(KeyFiles, {WList(<<WBytes(KeyFiles)>>)}),
        Followed(Optional(KeyLength, {WInt(<<"1">>)}),
        Followed(Optional(KeyMetaVersion, {WInt(<<"1">>), WInt(<<"2">>)}),
        Followed(Optional(KeyMetaVersionField, {WInt(<<"1">>), WInt(<<"2">>)}),
        Followed({<<Pair(KeyName, WBytes(<<"a">>))>>},
        Followed({<<Pair(KeyPieceLength, WInt(<<"1", "6">>))>>},
        Followed(Optional(KeyPieces, {WBytes(<<>>)}),
        Followed(Optional(KeyPrivate, WirePrivates),
                 Optional(KeyRootHash, {WBytes([i \in 1..SHA1_LEN |-> "a"])}))))))))))}

InitMetaInfo ==
    /\ input \in [info : WireInfoDicts, debug_assertions : BOOLEAN]
    /\ output = Pending
    /\ DfsIdle /\ HashIdle

\* MetaInfo::deserialize
DeserializeMetaInfo ==
    /\ output = Pending
    /\ output' = [meta_info |-> de_MetaInfo(input.info, input.debug_assertions)]
    /\ UNCHANGED <<input, dfsVars, hashVars>>

\* format!("{torrent}") of a Torrent that holds the decoded info dictionary
DisplayTorrent ==
    /\ DOMAIN output = {"meta_info"} /\ output.meta_info.ok
    /\ output' = [meta_info |-> output.meta_info, display |-> fmt(output.meta_info.value)]
    /\ UNCHANGED <<input, dfsVars, hashVars>>

NextMetaInfo == DeserializeMetaInfo \/ DisplayTorrent

SpecMetaInfo == InitMetaInfo /\ [][NextMetaInfo]_vars

\* The value of a key of a dictionary, when the dictionary has the key.
WireField(w, key) ==
    IF \E i \in DOMAIN w.pairs : w.pairs[i].key = key
    THEN Some(w.pairs[CHOOSE i \in DOMAIN w.pairs : w.pairs[i].key = key].value)
    ELSE None

\* C17: an info dictionary whose meta version is less than 2 is refused with
\* an invalid version error, and no decoded MetaV2 or Hybrid holds a meta
\* version below 2.
C17_MetaVersionAtLeast2 ==
    "info" \in DOMAIN input /\ "meta_info" \in DOMAIN output =>
        /\ WireField(input.info, KeyMetaVersion) = Some(WInt(<<"1">>))
           => /\ ~output.meta_info.ok
              /\ output.meta_info.error.kind = "InvalidVersion"
        /\ output.meta_info.ok /\ output.meta_info.value.variant = "MetaV2" =>
              output.meta_info.value.meta_version >= 2
        /\ /\ output.meta_info.ok /\ output.meta_info.value.variant = "Hybrid"
           /\ output.meta_info.value.meta_version.some
           => output.meta_info.value.meta_version.value >= 2

\* d12:meta versioni1e4:name1:a12:piece lengthi16ee was decoded to a Hybrid of
\* meta version 1.
C17_Witness ==
    /\ "info" \in DOMAIN input /\ "meta_info" \in DOMAIN output
    /\ input.info = WDict(<<Pair(KeyMetaVersion, WInt(<<"1">>)),
                            Pair(KeyName, WBytes(<<"a">>)),
                            Pair(KeyPieceLength, WInt(<<"1", "6">>))>>)
    /\ output.meta_info.ok
    /\ output.meta_info.value.variant = "Hybrid"
    /\ output.meta_info.value.meta_version = Some(1)

\* C18: private is false for the integer 0 and for an absent key, true for the
\* integer 1, and an info dictionary with any other value of private is refused.
C18_PrivateZeroOneOrAbsent ==
    "info" \in DOMAIN input /\ "meta_info" \in DOMAIN output =>
        LET private == WireField(input.info, KeyPrivate)
        IN /\ output.meta_info.ok /\ (~private.some \/ private = Some(WInt(<<"0">>)))
                 => ~output.meta_info.value.private
           /\ output.meta_info.ok /\ private = Some(WInt(<<"1">>))
                 => output.meta_info.value.private
           /\ private.some /\ private.value \notin {WInt(<<"0">>), WInt(<<"1">>)}
                 => ~output.meta_info.ok

\* d4:name1:a12:piece lengthi16e7:privatei256ee was decoded with private false.
C18_Witness ==
    /\ "info" \in DOMAIN input /\ "meta_info" \in DOMAIN output
    /\ input.info = WDict(<<Pair(KeyName, WBytes(<<"a">>)),
                            Pair(KeyPieceLength, WInt(<<"1", "6">>)),
                            Pair(KeyPrivate, WInt(<<"2", "5", "6">>))>>)
    /\ output.meta_info.ok
    /\ ~output.meta_info.value.private

\* C19: the dictionary is tried as MetaV1, then as MetaV2, then as Hybrid, and
\* the first that decodes is the result: MetaV1 whenever MetaV1 decodes, MetaV2
\* only when MetaV1 fails, Hybrid only when MetaV1 and MetaV2 fail.
C19_FirstVariantThatDecodes ==
    "info" \in DOMAIN input /\ "meta_info" \in DOMAIN output =>
        LET v1 == de_MetaV1(input.info, input.debug_assertions)
            v2 == de_MetaV2(input.info, input.debug_assertions)
            hybrid == de_Hybrid(input.info, input.debug_assertions)
        IN /\ v1.ok => output.meta_info = v1
           /\ ~v1.ok /\ v2.ok => output.meta_info = v2
           /\ ~v1.ok /\ ~v2.ok /\ hybrid.ok => output.meta_info = hybrid
           /\ output.meta_info.ok => v1.ok \/ v2.ok \/ hybrid.ok

\* A dictionary that decodes both as MetaV2 and as Hybrid was decoded to a MetaV2.
C19_Witness ==
    /\ "info" \in DOMAIN input /\ "meta_info" \in DOMAIN output
    /\ de_MetaV2(input.info, input.debug_assertions).ok
    /\ de_Hybrid(input.info, input.debug_assertions).ok
    /\ output.meta_info.ok
    /\ output.meta_info.value.variant = "MetaV2"

\* C20: when no variant decodes and the file tree of the dictionary does not
\* decode, the error returned is the error of the file tree.
C20_FileTreeErrorReturned ==
    "info" \in DOMAIN input /\ "meta_info" \in DOMAIN output =>
        LET file_tree == WireField(input.info, KeyFileTree)
        IN /\ ~output.meta_info.ok
           /\ file_tree.some
           /\ ~de_FileTree(file_tree.value, input.debug_assertions).ok
           => output.meta_info.error =
                 de_FileTree(file_tree.value, input.debug_assertions).error

\* An info dictionary with a broken file tree was refused with the error of
\* the untagged enum.
C20_Witness ==
    /\ "info" \in DOMAIN input /\ "meta_info" \in DOMAIN output
    /\ WireField(input.info, KeyFileTree) = Some(BrokenFileTree)
    /\ ~output.meta_info.ok
    /\ output.meta_info.error =
         [kind |-> "custom",
          msg |-> "data did not match any variant of untagged enum MetaInfo"]


\* C25: for every MetaInfo that decoding produces, iter_files and the Display
\* of the Torrent complete without a panic: a missing file listing is an empty
\* sequence or a typed failure.
C25_DisplayNeverPanics ==
    "info" \in DOMAIN input /\ "display" \in DOMAIN output => ~output.display.panic

\* A Hybrid decoded from a dictionary without file tree was displayed.
C25_Witness ==
    /\ "info" \in DOMAIN input /\ "display" \in DOMAIN output
    /\ output.meta_info.value.variant = "Hybrid"
    /\ ~output.meta_info.value.file_tree.some
    /\ ~WireField(input.info, KeyFileTree).some


\* The file-specification fields that a decoded MetaInfo has set.
FileFieldsSet(i) ==
    CASE i.variant = "MetaV1" -> {"files"} \cup (IF i.length.some THEN {"length"} ELSE {})
      [] i.variant = "MetaV2" -> {"file tree"}
      [] i.variant = "Hybrid" ->
            (IF i.files.some THEN {"files"} ELSE {})
            \cup (IF i.file_tree.some THEN {"file tree"} ELSE {})
            \cup (IF i.length.some THEN {"length"} ELSE {})

\* C26: a decoded MetaInfo has exactly one file-specification field set; an
\* info dictionary with none of length, files and file tree, or with length
\* and files, is refused and never decodes to a MetaV1 or a Hybrid.
C26_OneFileSpecification ==
    "info" \in DOMAIN input /\ "meta_info" \in DOMAIN output =>
        LET length == WireField(input.info, KeyLength).some
            files == WireField(input.info, KeyFiles).some
            file_tree == WireField(input.info, KeyFileTree).some
        IN /\ output.meta_info.ok => Cardinality(FileFieldsSet(output.meta_info.value)) = 1
           /\ (~length /\ ~files /\ ~file_tree) \/ (length /\ files) => ~output.meta_info.ok

\* d4:name1:a12:piece lengthi16ee, which has none of the three keys, was
\* decoded to a Hybrid.
C26_Witness ==
    /\ "info" \in DOMAIN input /\ "meta_info" \in DOMAIN output
    /\ input.info = WDict(<<Pair(KeyName, WBytes(<<"a">>)),
                            Pair(KeyPieceLength, WInt(<<"1", "6">>))>>)
    /\ output.meta_info.ok
    /\ output.meta_info.value.variant = "Hybrid"
    /\ FileFieldsSet(output.meta_info.value) = {}


(***************************************************************************)
(* Leaves and directories of a decoded FileTree (star-cloudburst files.rs) *)
(***************************************************************************)

\* The nested dictionary of a file on the wire: one key, the empty string.
OnlyEmptyKey(w) == w.type = "dict" /\ Len(w.pairs) = 1 /\ w.pairs[1].key = <<>>

RECURSIVE LeafIffOnlyEmptyKey(_, _)
\* Every entry of `node`, decoded from the dictionary w, is a leaf exactly
\* when its dictionary has the empty string as its only key; so on below.
LeafIffOnlyEmptyKey(w, node) ==
    \A i \in DOMAIN w.pairs :
        LET value == w.pairs[i].value
            entry == node[w.pairs[i].key]
        IN /\ entry.either = "Left" <=> OnlyEmptyKey(value)
           /\ entry.either = "Right" /\ ~OnlyEmptyKey(value)
                  => LeafIffOnlyEmptyKey(value, entry.node)

\* C21: in every decoded FileTree an entry is a file leaf if and only if its
\* dictionary on the wire has the empty string as its only key, and every
\* other entry is a directory: the file a of d1:ad0:d6:lengthi1eeee is the
\* leaf a, never a directory a that holds an entry named "".
C21_LeafIffOnlyEmptyKey ==
    ("file_tree" \in DOMAIN input /\ "decoded" \in DOMAIN output /\ output.decoded.ok)
        => LeafIffOnlyEmptyKey(input.file_tree, output.decoded.value)

\* d1:ad0:d6:lengthi1eeee was decoded: a is a directory whose entry "" is the file.
C21_Witness ==
    /\ "file_tree" \in DOMAIN input /\ "decoded" \in DOMAIN output /\ output.decoded.ok
    /\ input.file_tree =
         WDict(<<Pair(<<"a">>, WDict(<<Pair(<<>>, WDict(<<Pair(KeyLength, WInt(<<"1">>))>>))>>))>>)
    /\ output.decoded.value[<<"a">>].either = "Right"
    /\ output.decoded.value[<<"a">>].node[<<>>].either = "Left"


(***************************************************************************)
(* Native call depth of FileTreeDepthFirstIter::next                       *)
(***************************************************************************)

\* C22: the traversal is iterative: a call of next() uses the work stack only
\* and never calls itself, so the native call depth of one call is 1 whatever
\* the depth of the tree and the number of empty or exhausted directories.
C22_NextNeverCallsItself == depth <= 1

\* A file two directories down was yielded by the first call of next().
C22_Witness ==
    /\ Len(results) = 1 /\ results[1].some
    /\ Len(results[1].value.directory) = 3
    /\ depth = 3


(***************************************************************************)
(* star-bert: the length prefix of parser::bytes                           *)
(***************************************************************************)

\* The run of digits the input starts with has a leading zero and is not 0.
LeadingZeroPrefix(inp) == PrefixLen(inp) >= 2 /\ inp[1] = "0"

\* C23: bytes rejects every length prefix that has a leading zero and is not
\* the single digit 0, such as 04:spam and 00:, as the integer parser does.
C23_LengthWithoutLeadingZero ==
    output # Pending /\ DOMAIN input = {"bytes"} =>
        (LeadingZeroPrefix(input.bytes) => ~output.ok)

\* bytes was run on 01:a9 and on 00:
C23_Witness ==
    /\ output # Pending /\ DOMAIN input = {"bytes"}
    /\ \/ input.bytes = <<"0", "1", ":", "a", "9">> /\ output.ok /\ output.out = <<"a">>
       \/ input.bytes = <<"0", "0", ":">> /\ output.ok /\ output.out = <<>>


(***************************************************************************)
(* star-bert: shape of the BertErrorTrace a parser returns                 *)
(***************************************************************************)

\* A frame that is a context label.
IsContext(frame) == frame.source = "Context"

\* C24: every error trail returned by integer is non-empty, its first frame
\* is its only terminal-cause frame and every frame after it is a context
\* label, the labels being pushed from the innermost to the outermost.
C24_OneCauseThenContexts ==
    output # Pending /\ "N" \in DOMAIN input /\ ~output.ok =>
        /\ output.sources # <<>>
        /\ ~IsContext(output.sources[1])
        /\ \A i \in 2..Len(output.sources) : IsContext(output.sources[i])

\* i128e was refused as an i8 with a trail of two causes and the outer label.
C24_Witness ==
    /\ output # Pending /\ "N" \in DOMAIN input /\ ~output.ok
    /\ input.bytes = <<"i", "1", "2", "8", "e">> /\ input.N = i8
    /\ Len(output.sources) = 3
    /\ ~IsContext(output.sources[2])
    /\ IsContext(output.sources[3])


(***************************************************************************)
(* The depth-first iterator of bedit-cloudburst (files.rs)                 *)
(***************************************************************************)

RECURSIVE bedit_next(_, _)
\* bedit_cloudburst's FileTreeDepthFirstIter::next.  Its Either::Right arm
\* pushes the iterator of the directory it enters and nothing else: the
\* iterator popped at the start of the call is dropped at its end.
bedit_next(its, d) ==
    IF its = <<>> THEN [iters |-> <<>>, item |-> None, depth |-> d]
    ELSE LET fr == Head(its)
             popped == Tail(its)
         IN IF fr.rest = <<>> THEN bedit_next(popped, d + 1)
            ELSE LET name == Head(fr.rest)
                     entry == fr.node[name]
                     cur == [fr EXCEPT !.rest = Tail(fr.rest)]
                 IN IF entry.either = "Left"
                    THEN [iters |-> <<cur>> \o popped,
                          item |-> Some(FileTreePathView(fr.directory, name, entry.file_info)),
                          depth |-> d]
                    ELSE bedit_next(<<Frame(Append(fr.directory, name), entry.node)>> \o popped,
                                    d + 1)

InitBeditDfs ==
    /\ tree \in FileTrees
    /\ iters = iter_dfs(tree)
    /\ results = <<>>
    /\ depth = 0
    /\ HashIdle /\ PureIdle

\* One call of next() by the owner of the iterator of bedit-cloudburst.
BeditCallNext ==
    /\ ExtraCalls <= MaxExtraCalls
    /\ LET r == bedit_next(iters, 1)
       IN /\ iters' = r.iters
          /\ results' = Append(results, r.item)
          /\ depth' = r.depth
    /\ UNCHANGED <<tree, hashVars, pureVars>>

NextBeditDfs == BeditCallNext

SpecBeditDfs == InitBeditDfs /\ [][NextBeditDfs]_vars

\* C27: entering a directory does not lose the level above it: when the
\* iterator of bedit-cloudburst has returned None, every file leaf of the
\* tree, the later siblings of every directory included, has been yielded.
C27_SiblingsAfterDirectory ==
    Exhausted => {View(i) : i \in DOMAIN Yielded} = LeavesOf(tree, <<"./">>)

\* The iterator went through a directory that is followed by a file of its
\* parent, yielded the file inside it and returned None.
C27_Witness ==
    /\ Exhausted
    /\ \E k1, k2 \in DOMAIN tree :
        /\ KeyRank(k1) < KeyRank(k2)
        /\ tree[k1].either = "Right"
        /\ tree[k2].either = "Left"
        /\ \E i \in DOMAIN Yielded : View(i).directory = <<"./", k1>>


(***************************************************************************)
(* Torrent::info_hash when the computation fails                           *)
(***************************************************************************)

\* The calls of info_hash() that have returned, as (thread, call) pairs.
ReturnedCalls == UNION { {<<t, i>> : i \in DOMAIN ret[t]} : t \in Threads }

\* C28: when the computation fails, info_hash returns its error and the cache
\* stays empty; the failure is not remembered, so each call that has returned
\* has run the computation again; and once a computation has succeeded it is
\* never run again and no call returns an error.
C28_FailureNotMemoized ==
    info # <<>> =>
        /\ ~calculate_infohash(info).ok =>
              /\ info_hash_internal = None
              /\ \A r \in Returned : r = calculate_infohash(info)
              /\ calculated = Cardinality(ReturnedCalls)
        /\ info_hash_internal.some =>
              /\ calculated = 1
              /\ \A r \in Returned : r.ok

\* A thread has called info_hash() twice on a Torrent whose info dictionary
\* cannot be serialized: both calls ran the computation and returned its error.
C28_Witness ==
    /\ info # <<>> /\ ~calculate_infohash(info).ok
    /\ \E t \in Threads : Len(ret[t]) = 2 /\ ~ret[t][1].ok /\ ~ret[t][2].ok
    /\ calculated >= 2
    /\ info_hash_internal = None


(***************************************************************************)
(* The work stack of FileTreeDepthFirstIter                                *)
(***************************************************************************)

RECURSIVE TreeDepth(_)
\* Number of directory levels below `node`.
TreeDepth(node) ==
    LET below == {TreeDepth(node[k].node) + 1 : k \in {x \in DOMAIN node : node[x].either = "Right"}}
    IN IF below = {} THEN 0 ELSE CHOOSE d \in below : \A e \in below : e <= d

\* The frame `upper` iterates a directory that is an entry of `lower`'s node.
ChildFrame(upper, lower) ==
    \E name \in DOMAIN lower.node :
        /\ lower.node[name].either = "Right"
        /\ upper.node = lower.node[name].node
        /\ upper.directory = Append(lower.directory, name)

\* C29: the work stack is a chain of ancestors: its bottom frame has the path
\* ["./"] and iterates the root, every frame above iterates a directory of the
\* frame below it and has that frame's path extended by the directory's name;
\* so the stack never holds more frames than the depth of the tree plus one,
\* and it is empty exactly when next() has returned None.
C29_StackIsAncestorChain ==
    tree # <<>> \/ iters # <<>> \/ results # <<>> =>
        /\ iters # <<>> =>
              /\ iters[Len(iters)].directory = <<"./">>
              /\ iters[Len(iters)].node = tree
        /\ \A i \in 1..(Len(iters) - 1) : ChildFrame(iters[i], iters[i + 1])
        /\ Len(iters) <= TreeDepth(tree) + 1
        /\ iters = <<>> <=> Exhausted

\* A file two directories down was yielded: the stack holds the root, the
\* directory and the directory inside it.
C29_Witness ==
    /\ Len(iters) = 3
    /\ Len(iters[1].directory) = 3
    /\ results # <<>> /\ results[Len(results)].some
    /\ results[Len(results)].value.directory = iters[1].directory


(***************************************************************************)
(* Torrent::info_hash after the public field info was assigned             *)
(***************************************************************************)

\* torrent.info = other: the field is pub and an assignment needs &mut Torrent,
\* so no call of info_hash() is under way.  info_hash_internal is not touched.
ModifyInfo ==
    /\ \A t \in Threads : pc[t] = "idle"
    /\ \E t \in Threads : Len(ret[t]) < MaxCalls
    /\ info' \in MetaInfos \ {info}
    /\ UNCHANGED <<info_hash_internal, once, pc, ret, calculated, dfsVars, pureVars>>

NextInfoModified == NextInfoHash \/ ModifyInfo

SpecInfoModified == InitInfoHash /\ [][NextInfoModified]_vars

\* What info_hash() is to return for the info dictionary i.
HashOf(i) ==
    IF calculate_infohash(i).ok
    THEN Ok(InfoHashVersioned(i, calculate_infohash(i).value))
    ELSE calculate_infohash(i)

\* C30: whatever calls and assignments of info came before, a call of
\* info_hash() returns the hash of the info dictionary the Torrent holds when
\* it returns, never a value cached for an earlier dictionary.
C30_HashOfCurrentInfo ==
    [][\A t \in Threads :
          Len(ret'[t]) > Len(ret[t]) => ret'[t][Len(ret'[t])] = HashOf(info)]_vars

\* A Torrent that now holds a MetaV1 has returned a V1 hash whose SHA-1 was
\* computed from the Hybrid it held before.
C30_Witness ==
    /\ info # <<>> /\ info.variant = "MetaV1"
    /\ \E r \in Returned :
        /\ r.ok /\ r.value.variant = "V1"
        /\ r.value.sha1.of.bencoded.variant = "Hybrid"

=============================================================================
